---- MODULE Spec2Model ----
(***************************************************************************)
(* dramatiq-kombu-broker: the broker's declared-queue registry, its        *)
(* enqueue / declare / ensure / delete / consume operations running on     *)
(* several threads, the RabbitMQ queues they act on (mandatory publish,    *)
(* per-message TTL, dead-lettering), and the MessageProxy ack/nack state.  *)
(***************************************************************************)
EXTENDS Integers, Sequences, FiniteSets, TLC

\* Python None: for a number, for a name, for a thread
NoInt == 0 - 1
NoName == <<>>
NoThread == 0

\* ------------------------------------------------------------------------
\* Bounds of the model
\* ------------------------------------------------------------------------
NumThreads == 2
MaxOps == 2
MaxOob == 1
MaxFail == 2
MaxTicks == 2
MaxDelayOps == 2
MaxProxyCalls == 4

Threads == 1..NumThreads

\* ------------------------------------------------------------------------
\* Queue names.  A name is its base string followed by the ".DQ" / ".XQ"
\* suffixes it ends with: "a.DQ" is <<"a", "DQ">>.
\* ------------------------------------------------------------------------
Bases == {"a"}
InputNames == {<<b>> : b \in Bases}

HasSuffix(n, s) == Len(n) > 1 /\ n[Len(n)] = s
StripSuffix(n) == SubSeq(n, 1, Len(n) - 1)

\* dramatiq.common.q_name, reached through get_canonical_queue_name
get_canonical_queue_name(n) ==
    IF HasSuffix(n, "DQ") \/ HasSuffix(n, "XQ") THEN StripSuffix(n) ELSE n

\* dramatiq.common.dq_name, reached through get_delay_queue_name
get_delay_queue_name(n) ==
    IF HasSuffix(n, "DQ") THEN n
    ELSE IF HasSuffix(n, "XQ") THEN Append(StripSuffix(n), "DQ")
    ELSE Append(n, "DQ")

\* dramatiq.common.xq_name, reached through get_dead_letter_queue_name
get_dead_letter_queue_name(n) ==
    IF HasSuffix(n, "XQ") THEN n
    ELSE IF HasSuffix(n, "DQ") THEN Append(StripSuffix(n), "XQ")
    ELSE Append(n, "XQ")

get_queue_name_tuple(n) ==
    [canonical |-> get_canonical_queue_name(n),
     delayed |-> get_delay_queue_name(n),
     dead_letter |-> get_dead_letter_queue_name(n)]

Triple(n) ==
    {get_queue_name_tuple(n).canonical, get_queue_name_tuple(n).delayed,
     get_queue_name_tuple(n).dead_letter}

PhysNames == UNION {Triple(n) : n \in InputNames}
CanonNames == {get_canonical_queue_name(n) : n \in InputNames}

\* ------------------------------------------------------------------------
\* Milliseconds -> float seconds -> integer milliseconds.
\* enqueue passes expiration = delay / 1000.0 (a binary64 float) and the
\* transport sends int(expiration * 1000) as the AMQP expiration; the cap
\* is int(max_delay_time.total_seconds() * 1000), the same two roundings.
\* With 2^a <= D/1000 < 2^(a+1) the quotient is rounded to a 53-bit
\* significand m = round(D * 2^(49-a) / 125); m * 125 differs from
\* D * 2^(49-a) by DivError(D).  The product m * 1000 * 2^(a-52) is then
\* rounded to the binade of D, and truncation to int loses one whenever
\* that rounded product is below D.
\* ------------------------------------------------------------------------
RECURSIVE Log2Floor(_)
Log2Floor(n) == IF n < 2 THEN 0 ELSE 1 + Log2Floor(n \div 2)

RECURSIVE PowMod125(_)
PowMod125(e) == IF e = 0 THEN 1 ELSE (2 * PowMod125(e - 1)) % 125

RECURSIVE ShiftUp(_, _)
ShiftUp(d, k) == IF d * (2 ^ k) >= 1000 THEN k ELSE ShiftUp(d, k + 1)

\* a with 2^a <= D/1000 < 2^(a+1), for D >= 1
QuotExponent(d) ==
    IF d >= 1000 THEN Log2Floor(d \div 1000) ELSE 0 - ShiftUp(d, 1)

DivResidue(d) == ((d % 125) * PowMod125(49 - QuotExponent(d))) % 125

\* round to nearest: the significand goes down by r/125 or up by (125-r)/125
DivError(d) ==
    IF DivResidue(d) <= 62 THEN 0 - DivResidue(d) ELSE 125 - DivResidue(d)

\* half an ulp just below D, in the units of DivError
HalfUlpBelow(d) ==
    IF 2 ^ Log2Floor(d) = d
    THEN 2 ^ (Log2Floor(d) - QuotExponent(d) - 5)
    ELSE 2 ^ (Log2Floor(d) - QuotExponent(d) - 4)

\* int((d / 1000.0) * 1000)
FloatMs(d) ==
    IF d = 0 THEN 0
    ELSE IF DivError(d) < 0 /\ (0 - DivError(d)) > HalfUlpBelow(d) THEN d - 1
    ELSE d

\* ------------------------------------------------------------------------
\* Inputs
\* ------------------------------------------------------------------------
Delays == {NoInt, 1001, 1002}
Caps == {NoInt, 1001}
Topologies == {"default", "dlx"}
DeclareAttempts == {NoInt, 1}
TickSteps == {1000, 2}
NO_ROUTE == 312


\* dramatiq_rabbitmq_dlq_ttl: 7 days, in milliseconds
DLQ_TTL_MS == 604800000

\* ------------------------------------------------------------------------
\* State
\* ------------------------------------------------------------------------
VARIABLES
    topology,              \* "default" = DefaultDramatiqTopology, "dlx" = DLXRoutingTopology
    max_delay_time,        \* topology.max_delay_time in whole milliseconds, or None
    max_declare_attempts,  \* KombuBroker._max_declare_attempts, or None
    queues,                \* KombuBroker.queues
    queues_pending,        \* KombuBroker.queues_pending
    declare_lock,          \* KombuBroker._declare_lock (RLock): owner and depth
    rmq,                   \* the server: per physical queue, existence, arguments, messages
    now,                   \* current_millis()
    th,                    \* per thread: position in the running operation and its locals
    emitted,               \* per canonical name: before/after declare_queue notification pairs
    rearms,                \* per canonical name: delete_queue calls and recoveries
    declared,              \* per physical queue: successful physical declares
    declare_failed,        \* canonical names one of whose declares raised
    msgSeq,                \* message ids handed out
    budget,                \* what the environment may still do
    proxy,                 \* MessageProxy objects: kombu state, failed, last error
    calls,                 \* ack()/nack()/fail() calls made on proxies
    consumer,              \* one DramatiqConsumer: its queues, its pull cycle, its callers
    holder,                \* the connection holder: its connections and pools
    eval                   \* one topology object at work: a name, what it resolves to,
                           \* the arguments built for it, the declare made with them

cfg == <<topology, max_delay_time, max_declare_attempts>>
registry == <<queues, queues_pending>>
ghosts == <<emitted, rearms, declared, declare_failed>>
vars == <<topology, max_delay_time, max_declare_attempts, queues, queues_pending,
          declare_lock, rmq, now, th, emitted, rearms, declared, declare_failed,
          msgSeq, budget, proxy, calls, consumer, holder, eval>>

NoQueue == [exists |-> FALSE, msgs |-> <<>>, dlrk |-> NoName, ttl |-> NoInt]

IdleThread ==
    [pc |-> "idle", op |-> "none", name |-> NoName, ensure |-> FALSE, delay |-> NoInt,
     dq_arg |-> NoName, ret |-> "top", retries |-> 0, result |-> "none",
     reply_code |-> 0, err |-> [delay |-> NoInt, max_delay |-> NoInt, queue_name |-> NoName],
     qn |-> NoName, msg |-> 0, eta |-> NoInt, pubs |-> 0,
     notes |-> <<>>, wasPending |-> FALSE, log |-> <<>>, found |-> FALSE,
     recoveries |-> 0, todo |-> {}, rearmed |-> FALSE]

\* The two MessageProxy objects of the ack/nack specification
ProxyIds == {1, 2}
NewProxy ==
    [state |-> "RECEIVED", failed |-> FALSE, last_acknowledge_error |-> "None",
     wire |-> 0, ret |-> "none", wasAcked |-> FALSE, last |-> "none",
     wireFailed |-> FALSE]

\* the parts of the consumer and of the holder that only the specification
\* looking at them keeps track of
Untracked == <<>>

\* a QueueReader nothing was read from yet: its _consuming flag, whether the
\* server holds a registration (consumer tag) for it, and the last call made
NoReaderCall ==
    [op |-> "none", was_consuming |-> FALSE, reg |-> "none", read |-> "none",
     cancelled |-> FALSE, cancelOk |-> TRUE, result |-> "none"]
NewReader ==
    [_consuming |-> FALSE, registered |-> FALSE, calls |-> 0, restarts |-> 0,
     closes |-> 0, releases |-> 0, last |-> NoReaderCall]

\* DramatiqConsumer.__init__: empty ack and nack queues, nothing consumed yet
NewConsumer ==
    [channel_threadsafe |-> FALSE, closed |-> FALSE, pc |-> "idle",
     ret |-> "none", raw |-> "none",
     ack_queue |-> <<>>, nack_queue |-> <<>>,
     inbox |-> <<>>, delivered |-> {}, dead |-> <<>>, unacked |-> {},
     caller |-> [t \in Threads |-> [pc |-> "idle", timeout |-> FALSE]],
     events |-> {}, subs |-> 0, called |-> {}, snapshot |-> {}, executed |-> {},
     last |-> [ack |-> 0, nack |-> 0],
     wire_on |-> {}, wire_errors |-> 0, reader |-> Untracked]

\* no call of the holder is running
NoCall == [op |-> "none", stage |-> "none", retries |-> 0, tries |-> 0,
           asleep |-> FALSE, result |-> "none", clean |-> TRUE]

\* no acquire_consumer_channel() call was made by a thread yet
NoAcquire == [result |-> "none", block |-> FALSE, timeout |-> NoInt, waiting |-> FALSE]

\* the consumer channel pool of the shared holder before its first use
NewChannelPool ==
    [consumer_channel_pool_size |-> 1, held |-> [t \in Threads |-> 0],
     call |-> [t \in Threads |-> NoAcquire], acquires |-> 0, phase |-> 0]

\* SharedConnectionHolder seen by several threads: who holds _conn_lock, where
\* each thread is in its acquire or close call, the channel it was handed
NoChannel == [role |-> "none", is_open |-> FALSE]
NewShared ==
    [conn_lock |-> NoThread, calls |-> 0,
     at |-> [t \in Threads |-> "idle"],
     role |-> [t \in Threads |-> "none"],
     channel |-> [t \in Threads |-> NoChannel],
     result |-> [t \in Threads |-> "none"]]

\* the two connection pools of PooledConnectionHolder: how many connections
\* of each are borrowed (the pool's _dirty set), and the acquire call running
NoPoolCall == [op |-> "none", stage |-> "none", retries |-> 0, result |-> "none",
               before |-> 0]
NewPooled ==
    [dirty |-> [consumer |-> 0, producer |-> 0], calls |-> 0, call |-> NoPoolCall]

\* what the broker's operations hold of the holder: channels and producers
\* acquired and not released, the Consumers consume() has returned and that
\* were not closed, and the operation that is running
NoOperation == [op |-> "none", stage |-> "none", rounds |-> 0, result |-> "none"]
NewResources ==
    [channels |-> 0, producers |-> 0, consumers |-> 0, ops |-> 0, call |-> NoOperation]

\* the holder before its first use: nothing connected, the defaults of
\* ConnectionBroker.__init__ and of the holders
NewHolder ==
    [kind |-> "shared", up |-> TRUE, busy |-> "none", channels |-> NewChannelPool,
     shared |-> Untracked, pooled |-> Untracked, resources |-> Untracked,
     connected |-> [consumer |-> FALSE, producer |-> FALSE],
     pool_closed |-> [consumer |-> FALSE, producer |-> FALSE],
     declared |-> FALSE,
     conf |-> [confirm_timeout |-> 5, acquire_timeout |-> 10,
               max_enqueue_attempts |-> NoInt, connect_max_retries |-> NoInt],
     closes |-> 0, close_result |-> "none", last |-> "none",
     calls |-> 0, flips |-> 0, call |-> NoCall]

\* a topology object nothing was asked of yet
NoTuple == [canonical |-> NoName, delayed |-> NoName, dead_letter |-> NoName]
NoArguments == [dlrk |-> NoName, ttl |-> NoInt]
NoEval ==
    [name |-> NoName, ttl_passed |-> FALSE, ttl_arg |-> NoInt,
     resolved |-> FALSE, tuple |-> NoTuple,
     which |-> "none", again |-> NoTuple,
     built |-> [tp \in Topologies |-> FALSE],
     names |-> [tp \in Topologies |-> NoTuple],
     args |-> [tp \in Topologies |-> [k \in {"canonical", "delayed", "dead_letter"}
                                        |-> NoArguments]],
     declare |-> [kind |-> "none", ignore |-> FALSE, cls |-> "none", errmsg |-> "none",
                  outcome |-> "none"]]

InitBroker ==
    /\ queues = {}
    /\ queues_pending = {}
    /\ declare_lock = [owner |-> NoThread, depth |-> 0]
    /\ rmq = [q \in PhysNames |-> NoQueue]
    /\ now = 0
    /\ th = [t \in Threads |-> IdleThread]
    /\ emitted = [c \in CanonNames |-> 0]
    /\ rearms = [c \in CanonNames |-> 0]
    /\ declared = [q \in PhysNames |-> 0]
    /\ declare_failed = {}
    /\ msgSeq = 0
    /\ proxy = [i \in ProxyIds |-> NewProxy]
    /\ calls = 0

\* The registry under concurrency: default topology, no delays, no clock
Init ==
    /\ topology = "default"
    /\ max_delay_time = NoInt
    /\ max_declare_attempts \in DeclareAttempts
    /\ budget = [ops |-> MaxOps, oob |-> MaxOob, fail |-> MaxFail, ticks |-> 0]
    /\ InitBroker
    /\ consumer = NewConsumer
    /\ holder = NewHolder
    /\ eval = NoEval

\* Delayed messages: both topologies, with and without a cap, one thread, a clock
InitDelay ==
    /\ topology \in Topologies
    /\ max_delay_time \in Caps
    /\ max_declare_attempts = NoInt
    /\ budget = [ops |-> MaxDelayOps, oob |-> MaxOob, fail |-> 0, ticks |-> MaxTicks]
    /\ InitBroker
    /\ consumer = NewConsumer
    /\ holder = NewHolder
    /\ eval = NoEval

\* ------------------------------------------------------------------------
\* The re-entrant declare lock
\* ------------------------------------------------------------------------
\* variant: a lock that never makes anyone wait
CanAcquire_always(t) == TRUE

CanAcquire(t) == declare_lock.owner \in {NoThread, t}
Acquired(t) == [owner |-> t, depth |-> declare_lock.depth + 1]
Released(t) ==
    IF declare_lock.depth <= 1 THEN [owner |-> NoThread, depth |-> 0]
    ELSE [owner |-> t, depth |-> declare_lock.depth - 1]
\* an exception leaving every `with self._declare_lock` block of the thread
Unwound(t) ==
    IF declare_lock.owner = t THEN [owner |-> NoThread, depth |-> 0] ELSE declare_lock

Holds(t) == declare_lock.owner = t

\* the operation of thread t returns normally / raises
\* (its frame's locals are gone; what the caller sees is kept)
Finished(r) ==
    [r EXCEPT !.pc = "idle", !.ensure = FALSE, !.ret = "top", !.retries = 0,
              !.qn = NoName, !.eta = NoInt, !.log = <<>>, !.found = FALSE,
              !.todo = {}, !.rearmed = FALSE]
Returned(r) == [Finished(r) EXCEPT !.result = "ok"]
Raised(r, kind) == [Finished(r) EXCEPT !.result = kind]


\* ------------------------------------------------------------------------
\* Topology: the arguments each queue is declared with
\* ------------------------------------------------------------------------
\* int(self.max_delay_time.total_seconds() * 1000)
max_delay_ms == IF max_delay_time = NoInt THEN NoInt ELSE FloatMs(max_delay_time)

_get_canonical_queue_arguments(q) ==
    [dlrk |-> get_dead_letter_queue_name(q), ttl |-> NoInt]

\* variant: the delay queue dead-letters to the canonical queue whatever the
\* topology (DLXRoutingTopology's override left out)
_get_delay_queue_arguments_base(q) ==
    [dlrk |-> get_canonical_queue_name(q), ttl |-> max_delay_ms]

_get_delay_queue_arguments(q) ==
    [dlrk |-> IF topology = "dlx"
              THEN get_dead_letter_queue_name(get_canonical_queue_name(q))
              ELSE get_canonical_queue_name(q),
     ttl |-> max_delay_ms]

\* variant: DLXRoutingTopology keeps the default of the class it extends
dead_letter_message_ttl_inherited ==
    IF eval.ttl_passed THEN eval.ttl_arg ELSE DLQ_TTL_MS

\* the dead_letter_message_ttl field in milliseconds: the constructor argument
\* when one was passed, else the default of the class (None in
\* DLXRoutingTopology)
dead_letter_message_ttl ==
    IF eval.ttl_passed THEN eval.ttl_arg
    ELSE IF topology = "dlx" THEN NoInt ELSE DLQ_TTL_MS

_get_dead_letter_queue_arguments(q) ==
    [dlrk |-> NoName, ttl |-> dead_letter_message_ttl]

QueueArguments(q) ==
    IF HasSuffix(q, "DQ") THEN _get_delay_queue_arguments(q)
    ELSE IF HasSuffix(q, "XQ") THEN _get_dead_letter_queue_arguments(q)
    ELSE _get_canonical_queue_arguments(q)

\* queue.declare(): creates the queue; an existing queue keeps its arguments
\* and messages (inequivalent arguments are ignored by the broker's declares)
topology_declare_queue(server, q) ==
    IF server[q].exists THEN server
    ELSE [server EXCEPT ![q] = [exists |-> TRUE, msgs |-> <<>>,
                                dlrk |-> QueueArguments(q).dlrk,
                                ttl |-> QueueArguments(q).ttl]]

\* ------------------------------------------------------------------------
\* declare_queue(queue_name, ensure)
\* ------------------------------------------------------------------------
Canonical(t) == get_canonical_queue_name(th[t].dq_arg)

\* where declare_queue goes after its registration block
\* variant: the ensure flag is not looked at
AfterRegistration_ensuring(r) == [r EXCEPT !.pc = "ens_lock"]

AfterRegistration(r) ==
    IF r.ensure THEN [r EXCEPT !.pc = "ens_lock"] ELSE Returned(r)

\* threads are interchangeable: they are numbered in the order of their
\* first call into the broker
MayCall(t) == IF t = 1 THEN TRUE ELSE th[t - 1].op # "none"

\* the registry entry delete_queue(n) leaves behind
Rearmed(n) == n \notin queues /\ n \in queues_pending

CallDeclareQueue(t, n, e) ==
    /\ th[t].pc = "idle"
    /\ MayCall(t)
    /\ budget.ops > 0
    /\ budget' = [budget EXCEPT !.ops = @ - 1]
    /\ th' = [th EXCEPT ![t] = [IdleThread EXCEPT !.pc = "dq_check",
                  !.op = "declare_queue", !.name = n, !.ensure = e,
                  !.dq_arg = n, !.ret = "top", !.rearmed = Rearmed(n)]]
    /\ UNCHANGED <<cfg, registry, declare_lock, rmq, now, ghosts, msgSeq,
                   proxy, calls, consumer, holder, eval>>

\* the unlocked `if canonical_qname not in self.queues`
DeclareQueueCheck(t) ==
    /\ th[t].pc = "dq_check"
    /\ th' = [th EXCEPT ![t] =
                  IF Canonical(t) \notin queues THEN [@ EXCEPT !.pc = "dq_lock"]
                  ELSE AfterRegistration(@)]
    /\ UNCHANGED <<cfg, registry, declare_lock, rmq, now, ghosts, msgSeq, budget,
                   proxy, calls, consumer, holder, eval>>

DeclareQueueLock(t) ==
    /\ th[t].pc = "dq_lock"
    /\ CanAcquire(t)
    /\ declare_lock' = Acquired(t)
    /\ th' = [th EXCEPT ![t].pc = "dq_register"]
    /\ UNCHANGED <<cfg, registry, rmq, now, ghosts, msgSeq, budget, proxy, calls, consumer, holder, eval>>

\* the locked re-check and the registration
\* variant: no second membership check under the lock
RegisterNeeded_unchecked(c) == TRUE

RegisterNeeded(c) == c \notin queues

DeclareQueueRegister(t) ==
    /\ th[t].pc = "dq_register"
    /\ IF RegisterNeeded(Canonical(t))
       THEN /\ queues' = queues \cup {Canonical(t)}
            /\ queues_pending' = queues_pending \cup {Canonical(t)}
            /\ emitted' = [emitted EXCEPT ![Canonical(t)] = @ + 1]
       ELSE UNCHANGED <<registry, emitted>>
    /\ declare_lock' = Released(t)
    /\ th' = [th EXCEPT ![t] = AfterRegistration(@)]
    /\ UNCHANGED <<cfg, rmq, now, rearms, declared, declare_failed, msgSeq, budget,
                   proxy, calls, consumer, holder, eval>>

\* The registration statement by statement, for readers that do not take the
\* lock (flush reads queues_pending, flush_all reads queues):
\* `self.queues.add(canonical_qname)` ...
DeclareQueueAdd(t) ==
    /\ th[t].pc = "dq_register"
    /\ IF RegisterNeeded(Canonical(t))
       THEN /\ queues' = queues \cup {Canonical(t)}
            /\ th' = [th EXCEPT ![t].pc = "dq_register_pending"]
            /\ UNCHANGED declare_lock
       ELSE /\ declare_lock' = Released(t)
            /\ th' = [th EXCEPT ![t] = AfterRegistration(@)]
            /\ UNCHANGED queues
    /\ UNCHANGED <<cfg, queues_pending, rmq, now, ghosts, msgSeq, budget,
                   proxy, calls, consumer, holder, eval>>

\* ... `self.queues_pending.add(canonical_qname)`, the notifications, and the
\* end of the `with` block
DeclareQueueAddPending(t) ==
    /\ th[t].pc = "dq_register_pending"
    /\ queues_pending' = queues_pending \cup {Canonical(t)}
    /\ emitted' = [emitted EXCEPT ![Canonical(t)] = @ + 1]
    /\ declare_lock' = Released(t)
    /\ th' = [th EXCEPT ![t] = AfterRegistration(@)]
    /\ UNCHANGED <<cfg, queues, rmq, now, rearms, declared, declare_failed, msgSeq,
                   budget, proxy, calls, consumer, holder, eval>>

\* ------------------------------------------------------------------------
\* _ensure_queue(canonical), under the declare lock
\* ------------------------------------------------------------------------
EnsureLock(t) ==
    /\ th[t].pc = "ens_lock"
    /\ CanAcquire(t)
    /\ declare_lock' = Acquired(t)
    /\ th' = [th EXCEPT ![t].pc = "ens_start"]
    /\ UNCHANGED <<cfg, registry, rmq, now, ghosts, msgSeq, budget, proxy, calls, consumer, holder, eval>>

EnsureStart(t) ==
    /\ th[t].pc = "ens_start"
    /\ LET c == Canonical(t)
           q_names == get_queue_name_tuple(c)
       IN IF c # q_names.canonical
          THEN /\ th' = [th EXCEPT ![t] = Raised(@, "RuntimeError")]
               /\ declare_lock' = Unwound(t)
               /\ UNCHANGED queues_pending
          ELSE /\ queues_pending' =
                      IF q_names.canonical \in queues_pending
                      THEN queues_pending \cup {q_names.delayed, q_names.dead_letter}
                      ELSE queues_pending
               /\ th' = [th EXCEPT ![t].pc = "ens_1", ![t].retries = 0,
                             ![t].log = <<>>,
                             ![t].wasPending = (q_names.canonical \in queues_pending)]
               /\ UNCHANGED declare_lock
    /\ UNCHANGED <<cfg, queues, rmq, now, ghosts, msgSeq, budget, proxy, calls, consumer, holder, eval>>

\* the order in which _ensure_queue declares the three queues
\* variant: dead-letter queue declared before the delay queue
EnsureOrder_dead_letter_first(q_names) ==
    <<q_names.dead_letter, q_names.delayed, q_names.canonical>>

EnsureOrder(q_names) == <<q_names.delayed, q_names.dead_letter, q_names.canonical>>

EnsureStage(t) ==
    CASE th[t].pc = "ens_1" -> 1
      [] th[t].pc = "ens_2" -> 2
      [] th[t].pc = "ens_3" -> 3
      [] OTHER -> 0
EnsureTarget(t) == EnsureOrder(get_queue_name_tuple(Canonical(t)))[EnsureStage(t)]
NextStage(i) == IF i = 1 THEN "ens_2" ELSE IF i = 2 THEN "ens_3" ELSE "ens_done"

\* the `if name in self.queues_pending` guard of each declare; the variant
\* issues declares without looking at queues_pending
NeedsDeclare_always(q) == TRUE

NeedsDeclare(q) == q \in queues_pending

\* `self.queues_pending.discard(queue_name)` after a successful declare
\* variant: the declare of one queue clears the whole triple
Discarded_triple(q) == Triple(q)

Discarded(q) == {q}

\* _declare_dq_queue / _declare_xq_queue / _declare_queue succeed, or the
\* queue is not pending and the declare is skipped
EnsureDeclare(t) ==
    /\ EnsureStage(t) # 0
    /\ LET q == EnsureTarget(t) IN
       IF NeedsDeclare(q)
       THEN /\ rmq' = topology_declare_queue(rmq, q)
            /\ queues' = queues \cup {q}
            /\ queues_pending' = queues_pending \ Discarded(q)
            /\ declared' = [declared EXCEPT ![q] = @ + 1]
            /\ th' = [th EXCEPT ![t].pc = NextStage(EnsureStage(t)),
                          ![t].retries = 0, ![t].log = Append(@, q)]
       ELSE /\ th' = [th EXCEPT ![t].pc = NextStage(EnsureStage(t)), ![t].retries = 0]
            /\ UNCHANGED <<registry, rmq, declared>>
    /\ UNCHANGED <<cfg, declare_lock, now, emitted, rearms, declare_failed, msgSeq,
                   budget, proxy, calls, consumer, holder, eval>>

\* retry_over_time gives up when retries >= max_retries
\* variant: the bound compared with > instead of >=
RetriesExhausted_late(retries) ==
    max_declare_attempts # NoInt /\ retries > max_declare_attempts

RetriesExhausted(retries) ==
    max_declare_attempts # NoInt /\ retries >= max_declare_attempts

\* the declare raises a recoverable connection or channel error
EnsureDeclareFails(t) ==
    /\ EnsureStage(t) # 0
    /\ NeedsDeclare(EnsureTarget(t))
    /\ budget.fail > 0
    /\ budget' = [budget EXCEPT !.fail = @ - 1]
    /\ IF RetriesExhausted(th[t].retries)
       THEN /\ th' = [th EXCEPT ![t] = Raised(@, "ConnectionClosed")]
            /\ declare_lock' = Unwound(t)
       ELSE /\ th' = [th EXCEPT ![t].retries = @ + 1]
            /\ UNCHANGED declare_lock
    /\ declare_failed' = declare_failed \cup {Canonical(t)}
    /\ UNCHANGED <<cfg, registry, rmq, now, emitted, rearms, declared, msgSeq, proxy,
                   calls, consumer, holder, eval>>

\* _ensure_queue returned: leave `with self._declare_lock` and go back to the caller
EnsureDone(t) ==
    /\ th[t].pc = "ens_done"
    /\ declare_lock' = Released(t)
    /\ th' = [th EXCEPT ![t] =
                  CASE @.ret = "top" -> Returned(@)
                    [] @.ret = "enq_validate" -> [@ EXCEPT !.pc = "enq_validate"]
                    [] @.ret = "enq_retry" -> [@ EXCEPT !.pc = "enq_unlock"]
                    [] @.ret = "consume" -> [@ EXCEPT !.pc = "con_unlock"]]
    /\ UNCHANGED <<cfg, registry, rmq, now, ghosts, msgSeq, budget, proxy, calls, consumer, holder, eval>>


\* ------------------------------------------------------------------------
\* enqueue(message, delay)
\* ------------------------------------------------------------------------
\* a channel error other than no-route that a publish can raise
OtherReplyCodes == {406}

\* the first thing enqueue does: self.declare_queue(queue_name, ensure=True)
\* variant: the delay is validated before anything is declared
EnqueueEntry_validate == "enq_validate"

EnqueueEntry == "dq_check"

CallEnqueue(t, n, d) ==
    /\ th[t].pc = "idle"
    /\ MayCall(t)
    /\ budget.ops > 0
    /\ budget' = [budget EXCEPT !.ops = @ - 1]
    /\ msgSeq' = msgSeq + 1
    /\ th' = [th EXCEPT ![t] = [IdleThread EXCEPT !.pc = EnqueueEntry,
                  !.op = "enqueue", !.name = n, !.ensure = TRUE, !.delay = d,
                  !.dq_arg = n, !.ret = "enq_validate", !.qn = n,
                  !.msg = msgSeq + 1, !.rearmed = Rearmed(n)]]
    /\ UNCHANGED <<cfg, registry, declare_lock, rmq, now, ghosts, proxy, calls, consumer, holder, eval>>

\* `delay > max_delay_ms`
DelayTooLong(d) == d # NoInt /\ max_delay_time # NoInt /\ d > max_delay_ms

\* the delay check, the rewrite to the delay queue, emit_before("enqueue")
EnqueueValidate(t) ==
    /\ th[t].pc = "enq_validate"
    /\ th' = [th EXCEPT ![t] =
          IF DelayTooLong(@.delay)
          THEN [Raised(@, "DelayTooLongError") EXCEPT
                    !.err = [delay |-> th[t].delay, max_delay |-> max_delay_ms,
                             queue_name |-> th[t].name]]
          ELSE IF @.delay # NoInt
          THEN [@ EXCEPT !.pc = "enq_publish",
                         !.qn = get_delay_queue_name(th[t].name),
                         !.eta = now + th[t].delay,
                         !.notes = <<"before_enqueue">>]
          ELSE [@ EXCEPT !.pc = "enq_publish", !.notes = <<"before_enqueue">>]]
    /\ UNCHANGED <<cfg, registry, declare_lock, rmq, now, ghosts, msgSeq, budget,
                   proxy, calls, consumer, holder, eval>>

\* publish_kwargs["expiration"] = delay / 1000.0, sent as int(expiration * 1000)
Expiration(d) == IF d = NoInt THEN NoInt ELSE FloatMs(d)

Envelope(t) ==
    [id |-> th[t].msg, queue_name |-> th[t].qn, eta |-> th[t].eta,
     delay |-> th[t].delay, expiration |-> Expiration(th[t].delay),
     pub |-> now, at |-> now]

\* mandatory publish to the default exchange: routed iff the queue exists
Routable(rk) == rmq[rk].exists

\* _enqueue_message, first call
EnqueuePublish(t) ==
    /\ th[t].pc = "enq_publish"
    /\ IF Routable(th[t].qn)
       THEN /\ rmq' = [rmq EXCEPT ![th[t].qn].msgs = Append(@, Envelope(t))]
            /\ th' = [th EXCEPT ![t] = [Returned(@) EXCEPT !.pubs = @ + 1,
                          !.notes = Append(@, "after_enqueue")]]
       ELSE /\ th' = [th EXCEPT ![t].pc = "enq_recover_lock", ![t].pubs = @ + 1,
                          ![t].reply_code = NO_ROUTE]
            /\ UNCHANGED rmq
    /\ UNCHANGED <<cfg, registry, declare_lock, now, ghosts, msgSeq, budget, proxy, calls, consumer, holder, eval>>

\* a publish raising a channel error that is not no-route: it propagates
EnqueuePublishFails(t, code) ==
    /\ th[t].pc \in {"enq_publish", "enq_publish2"}
    /\ budget.fail > 0
    /\ budget' = [budget EXCEPT !.fail = @ - 1]
    /\ th' = [th EXCEPT ![t] = [Raised(@, "ChannelError") EXCEPT !.pubs = @ + 1,
                  !.reply_code = code]]
    /\ UNCHANGED <<cfg, registry, declare_lock, rmq, now, ghosts, msgSeq, proxy, calls, consumer, holder, eval>>

EnqueueRecoverLock(t) ==
    /\ th[t].pc = "enq_recover_lock"
    /\ CanAcquire(t)
    /\ declare_lock' = Acquired(t)
    /\ th' = [th EXCEPT ![t].pc = "enq_recover"]
    /\ UNCHANGED <<cfg, registry, rmq, now, ghosts, msgSeq, budget, proxy, calls, consumer, holder, eval>>

\* what the no-route handler removes from `queues`
\* variant: the recovery keeps the name in self.queues
Forgotten_nothing(qn) == {}

Forgotten(qn) == {get_canonical_queue_name(qn)}

\* self.queues.discard(canonical); self.declare_queue(queue_name, ensure=True)
EnqueueRecover(t) ==
    /\ th[t].pc = "enq_recover"
    /\ queues' = queues \ Forgotten(th[t].qn)
    /\ rearms' = [rearms EXCEPT ![get_canonical_queue_name(th[t].qn)] = @ + 1]
    /\ th' = [th EXCEPT ![t].pc = "dq_check", ![t].dq_arg = th[t].qn,
                  ![t].ret = "enq_retry", ![t].recoveries = @ + 1]
    /\ UNCHANGED <<cfg, queues_pending, declare_lock, rmq, now, emitted, declared,
                   declare_failed, msgSeq, budget, proxy, calls, consumer, holder, eval>>

EnqueueRecoverUnlock(t) ==
    /\ th[t].pc = "enq_unlock"
    /\ declare_lock' = Released(t)
    /\ th' = [th EXCEPT ![t].pc = "enq_publish2"]
    /\ UNCHANGED <<cfg, registry, rmq, now, ghosts, msgSeq, budget, proxy, calls, consumer, holder, eval>>

\* _enqueue_message, second call: outside the try, so no-route propagates
\* variant: an unroutable second publish starts another recovery
EnqueueRetryPublish_again(t) ==
    /\ th[t].pc = "enq_publish2"
    /\ IF Routable(th[t].qn)
       THEN /\ rmq' = [rmq EXCEPT ![th[t].qn].msgs = Append(@, Envelope(t))]
            /\ th' = [th EXCEPT ![t] = [Returned(@) EXCEPT !.pubs = @ + 1,
                          !.notes = Append(@, "after_enqueue")]]
       ELSE /\ th' = [th EXCEPT ![t].pc = "enq_recover_lock", ![t].pubs = @ + 1,
                          ![t].reply_code = NO_ROUTE]
            /\ UNCHANGED rmq
    /\ UNCHANGED <<cfg, registry, declare_lock, now, ghosts, msgSeq, budget, proxy, calls, consumer, holder, eval>>

EnqueueRetryPublish(t) ==
    /\ th[t].pc = "enq_publish2"
    /\ IF Routable(th[t].qn)
       THEN /\ rmq' = [rmq EXCEPT ![th[t].qn].msgs = Append(@, Envelope(t))]
            /\ th' = [th EXCEPT ![t] = [Returned(@) EXCEPT !.pubs = @ + 1,
                          !.notes = Append(@, "after_enqueue")]]
       ELSE /\ th' = [th EXCEPT ![t] = [Raised(@, "ChannelError") EXCEPT
                          !.pubs = @ + 1, !.reply_code = NO_ROUTE]]
            /\ UNCHANGED rmq
    /\ UNCHANGED <<cfg, registry, declare_lock, now, ghosts, msgSeq, budget, proxy, calls, consumer, holder, eval>>

\* ------------------------------------------------------------------------
\* delete_queue(queue_name)
\* ------------------------------------------------------------------------
CallDeleteQueue(t, n) ==
    /\ th[t].pc = "idle"
    /\ MayCall(t)
    /\ budget.ops > 0
    /\ budget' = [budget EXCEPT !.ops = @ - 1]
    /\ th' = [th EXCEPT ![t] = [IdleThread EXCEPT !.pc = "del_lock",
                  !.op = "delete_queue", !.name = n]]
    /\ UNCHANGED <<cfg, registry, declare_lock, rmq, now, ghosts, msgSeq,
                   proxy, calls, consumer, holder, eval>>

DeleteQueueLock(t) ==
    /\ th[t].pc = "del_lock"
    /\ CanAcquire(t)
    /\ declare_lock' = Acquired(t)
    /\ th' = [th EXCEPT ![t].pc = "del_body"]
    /\ UNCHANGED <<cfg, registry, rmq, now, ghosts, msgSeq, budget, proxy, calls, consumer, holder, eval>>

\* the three queue_delete calls and the registry update; `refused` are the
\* queues for which the server answers NotAllowed, which is suppressed
DeleteQueueBody(t, refused) ==
    /\ th[t].pc = "del_body"
    /\ refused \subseteq {q \in Triple(th[t].name) : rmq[q].exists}
    /\ rmq' = [q \in DOMAIN rmq |->
                IF q \in Triple(th[t].name) \ refused THEN NoQueue ELSE rmq[q]]
    /\ queues' = queues \ {th[t].name}
    /\ queues_pending' = queues_pending \cup {th[t].name}
    /\ rearms' = [rearms EXCEPT ![get_canonical_queue_name(th[t].name)] = @ + 1]
    /\ declare_lock' = Released(t)
    /\ th' = [th EXCEPT ![t] =
                  IF @.ret = "delete_all" THEN [@ EXCEPT !.pc = "da_next"]
                  ELSE Returned(@)]
    /\ UNCHANGED <<cfg, now, emitted, declared, declare_failed, msgSeq, budget,
                   proxy, calls, consumer, holder, eval>>

\* delete_all(include_pending): the names are collected once, without the
\* lock, and delete_queue is called for each of their canonical names
CallDeleteAll(t, include_pending) ==
    /\ th[t].pc = "idle"
    /\ MayCall(t)
    /\ budget.ops > 0
    /\ budget' = [budget EXCEPT !.ops = @ - 1]
    /\ LET names == IF include_pending THEN queues \cup queues_pending ELSE queues
           uniq_names == {get_canonical_queue_name(qname) : qname \in names}
       IN th' = [th EXCEPT ![t] = [IdleThread EXCEPT !.pc = "da_next",
                     !.op = "delete_all", !.ret = "delete_all", !.todo = uniq_names]]
    /\ UNCHANGED <<cfg, registry, declare_lock, rmq, now, ghosts, msgSeq,
                   proxy, calls, consumer, holder, eval>>

DeleteAllNext(t) ==
    /\ th[t].pc = "da_next"
    /\ IF th[t].todo = {}
       THEN th' = [th EXCEPT ![t] = Returned(@)]
       ELSE \E n \in th[t].todo :
               th' = [th EXCEPT ![t].pc = "del_lock", ![t].name = n,
                            ![t].todo = @ \ {n}]
    /\ UNCHANGED <<cfg, registry, declare_lock, rmq, now, ghosts, msgSeq, budget,
                   proxy, calls, consumer, holder, eval>>

\* ------------------------------------------------------------------------
\* consume(queue_name): the probe and what it does to the registry
\* ------------------------------------------------------------------------
CallConsume(t, n) ==
    /\ th[t].pc = "idle"
    /\ MayCall(t)
    /\ budget.ops > 0
    /\ budget' = [budget EXCEPT !.ops = @ - 1]
    /\ th' = [th EXCEPT ![t] = [IdleThread EXCEPT !.pc = "con_check",
                  !.op = "consume", !.name = n, !.ensure = TRUE, !.dq_arg = n,
                  !.ret = "consume", !.rearmed = Rearmed(n)]]
    /\ UNCHANGED <<cfg, registry, declare_lock, rmq, now, ghosts, msgSeq,
                   proxy, calls, consumer, holder, eval>>

\* consumer.check(): NotFound iff the queue does not exist
ConsumeCheck(t) ==
    /\ th[t].pc = "con_check"
    /\ th' = [th EXCEPT ![t].pc = "con_lock", ![t].found = rmq[th[t].name].exists]
    /\ UNCHANGED <<cfg, registry, declare_lock, rmq, now, ghosts, msgSeq, budget,
                   proxy, calls, consumer, holder, eval>>

ConsumeLock(t) ==
    /\ th[t].pc = "con_lock"
    /\ CanAcquire(t)
    /\ declare_lock' = Acquired(t)
    /\ th' = [th EXCEPT ![t].pc = "con_body"]
    /\ UNCHANGED <<cfg, registry, rmq, now, ghosts, msgSeq, budget, proxy, calls, consumer, holder, eval>>

ConsumeBody(t) ==
    /\ th[t].pc = "con_body"
    /\ IF th[t].found
       THEN /\ queues_pending' = queues_pending \ {th[t].name}
            /\ declare_lock' = Released(t)
            /\ th' = [th EXCEPT ![t] = Returned(@)]
            /\ UNCHANGED <<queues, rearms>>
       ELSE /\ queues' = queues \ {th[t].name}
            /\ rearms' = [rearms EXCEPT ![get_canonical_queue_name(th[t].name)] = @ + 1]
            /\ th' = [th EXCEPT ![t].pc = "dq_check", ![t].recoveries = @ + 1]
            /\ UNCHANGED <<queues_pending, declare_lock>>
    /\ UNCHANGED <<cfg, rmq, now, emitted, declared, declare_failed, msgSeq, budget,
                   proxy, calls, consumer, holder, eval>>

ConsumeUnlock(t) ==
    /\ th[t].pc = "con_unlock"
    /\ declare_lock' = Released(t)
    /\ th' = [th EXCEPT ![t] = Returned(@)]
    /\ UNCHANGED <<cfg, registry, rmq, now, ghosts, msgSeq, budget, proxy, calls, consumer, holder, eval>>

\* ------------------------------------------------------------------------
\* flush(queue_name) and flush_all()
\* ------------------------------------------------------------------------
\* channel.queue_purge(q)
queue_purge(server, q) == [server EXCEPT ![q].msgs = <<>>]

\* the order of the three purges
FlushOrder(q_names) == <<q_names.canonical, q_names.delayed, q_names.dead_letter>>

FlushStage(t) ==
    CASE th[t].pc = "flush_1" -> 1
      [] th[t].pc = "flush_2" -> 2
      [] th[t].pc = "flush_3" -> 3
      [] OTHER -> 0
FlushTarget(t) == FlushOrder(get_queue_name_tuple(th[t].name))[FlushStage(t)]
NextFlushStage(i) == IF i = 1 THEN "flush_2" ELSE IF i = 2 THEN "flush_3" ELSE "flush_done"

\* the `if queue_name not in self.queues_pending` of each round of the loop;
\* the variant purges whatever the registry says
FlushSkips_never(n) == FALSE

FlushSkips(n) == n \in queues_pending

CallFlush(t, n) ==
    /\ th[t].pc = "idle"
    /\ MayCall(t)
    /\ budget.ops > 0
    /\ budget' = [budget EXCEPT !.ops = @ - 1]
    /\ th' = [th EXCEPT ![t] = [IdleThread EXCEPT !.pc = "flush_1",
                  !.op = "flush", !.name = n]]
    /\ UNCHANGED <<cfg, registry, declare_lock, rmq, now, ghosts, msgSeq,
                   proxy, calls, consumer, holder, eval>>

\* one round of the loop: the purge of one queue, skipped while the name is
\* pending; purging a queue that does not exist raises NotFound
FlushPurge(t) ==
    /\ FlushStage(t) # 0
    /\ IF FlushSkips(th[t].name)
       THEN /\ th' = [th EXCEPT ![t].pc = NextFlushStage(FlushStage(t))]
            /\ UNCHANGED rmq
       ELSE IF rmq[FlushTarget(t)].exists
       THEN /\ rmq' = queue_purge(rmq, FlushTarget(t))
            /\ th' = [th EXCEPT ![t].pc = NextFlushStage(FlushStage(t)),
                          ![t].log = Append(@, FlushTarget(t))]
       ELSE /\ th' = [th EXCEPT ![t] = Raised(@, "NotFound")]
            /\ UNCHANGED rmq
    /\ UNCHANGED <<cfg, registry, declare_lock, now, ghosts, msgSeq, budget,
                   proxy, calls, consumer, holder, eval>>

\* flush returns, to its caller or to the loop of flush_all
FlushDone(t) ==
    /\ th[t].pc = "flush_done"
    /\ th' = [th EXCEPT ![t] =
                  IF @.ret = "flush_all" THEN [@ EXCEPT !.pc = "fa_next", !.log = <<>>]
                  ELSE Returned(@)]
    /\ UNCHANGED <<cfg, registry, declare_lock, rmq, now, ghosts, msgSeq, budget,
                   proxy, calls, consumer, holder, eval>>

\* flush_all(): `for queue_name in self.queues`
CallFlushAll(t) ==
    /\ th[t].pc = "idle"
    /\ MayCall(t)
    /\ budget.ops > 0
    /\ budget' = [budget EXCEPT !.ops = @ - 1]
    /\ th' = [th EXCEPT ![t] = [IdleThread EXCEPT !.pc = "fa_next",
                  !.op = "flush_all", !.ret = "flush_all", !.todo = queues]]
    /\ UNCHANGED <<cfg, registry, declare_lock, rmq, now, ghosts, msgSeq,
                   proxy, calls, consumer, holder, eval>>

\* the next name of the iteration, in the arbitrary order of a set
FlushAllNext(t) ==
    /\ th[t].pc = "fa_next"
    /\ IF th[t].todo = {}
       THEN th' = [th EXCEPT ![t] = Returned(@)]
       ELSE \E n \in th[t].todo :
               th' = [th EXCEPT ![t].pc = "flush_1", ![t].name = n,
                            ![t].todo = @ \ {n}]
    /\ UNCHANGED <<cfg, registry, declare_lock, rmq, now, ghosts, msgSeq, budget,
                   proxy, calls, consumer, holder, eval>>

\* ------------------------------------------------------------------------
\* The server and the rest of the world
\* ------------------------------------------------------------------------
\* a queue is deleted by someone else
OutOfBandDelete(q) ==
    /\ rmq[q].exists
    /\ budget.oob > 0
    /\ budget' = [budget EXCEPT !.oob = @ - 1]
    /\ rmq' = [rmq EXCEPT ![q] = NoQueue]
    /\ UNCHANGED <<cfg, registry, declare_lock, now, th, ghosts, msgSeq, proxy, calls, consumer, holder, eval>>

Min(x, y) == IF x <= y THEN x ELSE y

\* the TTL of a message in a queue: its own expiration and the queue's x-message-ttl
EffectiveTtl(m, q) ==
    IF m.expiration = NoInt THEN rmq[q].ttl
    ELSE IF rmq[q].ttl = NoInt THEN m.expiration
    ELSE Min(m.expiration, rmq[q].ttl)

\* the head of a queue has outlived its TTL
Due(q) ==
    /\ rmq[q].exists
    /\ rmq[q].msgs # <<>>
    /\ EffectiveTtl(Head(rmq[q].msgs), q) # NoInt
    /\ now - Head(rmq[q].msgs).at >= EffectiveTtl(Head(rmq[q].msgs), q)

\* the head of a queue expires and is dead-lettered (or dropped)
Expire(q) ==
    /\ Due(q)
    /\ LET m == Head(rmq[q].msgs)
           k == rmq[q].dlrk
       IN rmq' = [x \in PhysNames |->
                IF x = q THEN [rmq[q] EXCEPT !.msgs = Tail(@)]
                ELSE IF x = k /\ rmq[x].exists
                THEN [rmq[x] EXCEPT !.msgs =
                          Append(@, [m EXCEPT !.expiration = NoInt, !.at = now])]
                ELSE rmq[x]]
    /\ UNCHANGED <<cfg, registry, declare_lock, now, th, ghosts, msgSeq, budget,
                   proxy, calls, consumer, holder, eval>>

\* time passes once every expired head has been dead-lettered
Tick(d) ==
    /\ budget.ticks > 0
    /\ \A q \in PhysNames : ~Due(q)
    /\ budget' = [budget EXCEPT !.ticks = @ - 1]
    /\ now' = now + d
    /\ UNCHANGED <<cfg, registry, declare_lock, rmq, th, ghosts, msgSeq, proxy, calls, consumer, holder, eval>>

Next ==
    \/ \E t \in Threads, n \in InputNames, e \in BOOLEAN : CallDeclareQueue(t, n, e)
    \/ \E t \in Threads : DeclareQueueCheck(t)
    \/ \E t \in Threads : DeclareQueueLock(t)
    \/ \E t \in Threads : DeclareQueueRegister(t)
    \/ \E t \in Threads : EnsureLock(t)
    \/ \E t \in Threads : EnsureStart(t)
    \/ \E t \in Threads : EnsureDeclare(t)
    \/ \E t \in Threads : EnsureDeclareFails(t)
    \/ \E t \in Threads : EnsureDone(t)
    \/ \E t \in Threads, n \in InputNames : CallEnqueue(t, n, NoInt)
    \/ \E t \in Threads : EnqueueValidate(t)
    \/ \E t \in Threads : EnqueuePublish(t)
    \/ \E t \in Threads, code \in OtherReplyCodes : EnqueuePublishFails(t, code)
    \/ \E t \in Threads : EnqueueRecoverLock(t)
    \/ \E t \in Threads : EnqueueRecover(t)
    \/ \E t \in Threads : EnqueueRecoverUnlock(t)
    \/ \E t \in Threads : EnqueueRetryPublish(t)
    \/ \E t \in Threads, n \in InputNames : CallDeleteQueue(t, n)
    \/ \E t \in Threads : DeleteQueueLock(t)
    \/ \E t \in Threads : DeleteQueueBody(t, {})
    \/ \E t \in Threads, n \in InputNames : CallConsume(t, n)
    \/ \E t \in Threads : ConsumeCheck(t)
    \/ \E t \in Threads : ConsumeLock(t)
    \/ \E t \in Threads : ConsumeBody(t)
    \/ \E t \in Threads : ConsumeUnlock(t)
    \/ \E q \in CanonNames : OutOfBandDelete(q)

\* (no delayed message here: the queue deleted behind the broker's back is the
\* canonical one, which every publish and consumer check of Next goes to)
Spec == Init /\ [][Next]_vars

\* one producer thread sending delayed and undelayed messages while time passes
Producer == 1

NextDelay ==
    \/ \E n \in InputNames, d \in Delays : CallEnqueue(Producer, n, d)
    \/ DeclareQueueCheck(Producer)
    \/ DeclareQueueLock(Producer)
    \/ DeclareQueueRegister(Producer)
    \/ EnsureLock(Producer)
    \/ EnsureStart(Producer)
    \/ EnsureDeclare(Producer)
    \/ EnsureDone(Producer)
    \/ EnqueueValidate(Producer)
    \/ EnqueuePublish(Producer)
    \/ EnqueueRecoverLock(Producer)
    \/ EnqueueRecover(Producer)
    \/ EnqueueRecoverUnlock(Producer)
    \/ EnqueueRetryPublish(Producer)
    \/ \E q \in PhysNames : OutOfBandDelete(q)
    \/ \E d \in TickSteps : Tick(d)
    \/ \E q \in PhysNames : Expire(q)

SpecDelay == InitDelay /\ [][NextDelay]_vars


\* ------------------------------------------------------------------------
\* The registry operations with every name of a triple as argument: the
\* worker consumes the delay queue by its own name, and declare_queue,
\* delete_queue and flush resolve whatever name they are given
\* ------------------------------------------------------------------------
MaxRegistryOps == 3

InitRegistry ==
    /\ topology = "default"
    /\ max_delay_time = NoInt
    /\ max_declare_attempts = NoInt
    /\ budget = [ops |-> MaxRegistryOps, oob |-> MaxOob, fail |-> 0, ticks |-> 0]
    /\ InitBroker
    /\ consumer = NewConsumer
    /\ holder = NewHolder
    /\ eval = NoEval

NextRegistry ==
    \/ \E n \in PhysNames, e \in BOOLEAN : CallDeclareQueue(Producer, n, e)
    \/ DeclareQueueCheck(Producer)
    \/ DeclareQueueLock(Producer)
    \/ DeclareQueueRegister(Producer)
    \/ EnsureLock(Producer)
    \/ EnsureStart(Producer)
    \/ EnsureDeclare(Producer)
    \/ EnsureDone(Producer)
    \/ \E n \in InputNames : CallEnqueue(Producer, n, NoInt)
    \/ EnqueueValidate(Producer)
    \/ EnqueuePublish(Producer)
    \/ EnqueueRecoverLock(Producer)
    \/ EnqueueRecover(Producer)
    \/ EnqueueRecoverUnlock(Producer)
    \/ EnqueueRetryPublish(Producer)
    \/ \E n \in PhysNames : CallDeleteQueue(Producer, n)
    \/ DeleteQueueLock(Producer)
    \/ \E q \in PhysNames : DeleteQueueBody(Producer, {q})
    \/ DeleteQueueBody(Producer, {})
    \/ \E n \in PhysNames : CallConsume(Producer, n)
    \/ ConsumeCheck(Producer)
    \/ ConsumeLock(Producer)
    \/ ConsumeBody(Producer)
    \/ ConsumeUnlock(Producer)
    \/ \E n \in PhysNames : CallFlush(Producer, n)
    \/ FlushPurge(Producer)
    \/ FlushDone(Producer)
    \/ CallFlushAll(Producer)
    \/ FlushAllNext(Producer)
    \/ \E q \in PhysNames : OutOfBandDelete(q)

SpecRegistry == InitRegistry /\ [][NextRegistry]_vars

\* ------------------------------------------------------------------------
\* Two threads on one broker, with the operations that read the registry
\* without the lock (flush, flush_all, delete_all) and the registration of
\* declare_queue taken statement by statement
\* ------------------------------------------------------------------------
MaxRaceOps == 2

Racers == {t \in Threads : t <= 2}

InitRace ==
    /\ topology = "default"
    /\ max_delay_time = NoInt
    /\ max_declare_attempts = 1
    /\ budget = [ops |-> MaxRaceOps, oob |-> 0, fail |-> MaxFail, ticks |-> 0]
    /\ InitBroker
    /\ consumer = NewConsumer
    /\ holder = NewHolder
    /\ eval = NoEval

NextRace ==
    \/ \E t \in Racers, n \in InputNames, e \in BOOLEAN : CallDeclareQueue(t, n, e)
    \/ \E t \in Racers : DeclareQueueCheck(t)
    \/ \E t \in Racers : DeclareQueueLock(t)
    \/ \E t \in Racers : DeclareQueueAdd(t)
    \/ \E t \in Racers : DeclareQueueAddPending(t)
    \/ \E t \in Racers : EnsureLock(t)
    \/ \E t \in Racers : EnsureStart(t)
    \/ \E t \in Racers : EnsureDeclare(t)
    \/ \E t \in Racers : EnsureDeclareFails(t)
    \/ \E t \in Racers : EnsureDone(t)
    \/ \E t \in Racers, n \in InputNames : CallEnqueue(t, n, NoInt)
    \/ \E t \in Racers : EnqueueValidate(t)
    \/ \E t \in Racers : EnqueuePublish(t)
    \/ \E t \in Racers : EnqueueRecoverLock(t)
    \/ \E t \in Racers : EnqueueRecover(t)
    \/ \E t \in Racers : EnqueueRecoverUnlock(t)
    \/ \E t \in Racers : EnqueueRetryPublish(t)
    \/ \E t \in Racers, n \in InputNames : CallDeleteQueue(t, n)
    \/ \E t \in Racers : DeleteQueueLock(t)
    \/ \E t \in Racers : DeleteQueueBody(t, {})
    \/ \E t \in Racers, p \in BOOLEAN : CallDeleteAll(t, p)
    \/ \E t \in Racers : DeleteAllNext(t)
    \/ \E t \in Racers, n \in InputNames : CallConsume(t, n)
    \/ \E t \in Racers : ConsumeCheck(t)
    \/ \E t \in Racers : ConsumeLock(t)
    \/ \E t \in Racers : ConsumeBody(t)
    \/ \E t \in Racers : ConsumeUnlock(t)
    \/ \E t \in Racers : CallFlushAll(t)
    \/ \E t \in Racers : FlushAllNext(t)
    \/ \E t \in Racers : FlushPurge(t)
    \/ \E t \in Racers : FlushDone(t)

SpecRace == InitRace /\ [][NextRace]_vars

\* ------------------------------------------------------------------------
\* Two threads working on two different queue names while declares fail and
\* are retried
\* ------------------------------------------------------------------------
MaxSleepOps == 2

SleepNames == {<<"a">>, <<"b">>}
SleepPhys == UNION {Triple(n) : n \in SleepNames}

InitSleep ==
    /\ topology = "default"
    /\ max_delay_time = NoInt
    /\ max_declare_attempts \in DeclareAttempts
    /\ budget = [ops |-> MaxSleepOps, oob |-> MaxOob, fail |-> MaxFail, ticks |-> 0]
    /\ queues = {}
    /\ queues_pending = {}
    /\ declare_lock = [owner |-> NoThread, depth |-> 0]
    /\ rmq = [q \in SleepPhys |-> NoQueue]
    /\ now = 0
    /\ th = [t \in Threads |-> IdleThread]
    /\ emitted = [c \in SleepNames |-> 0]
    /\ rearms = [c \in SleepNames |-> 0]
    /\ declared = [q \in SleepPhys |-> 0]
    /\ declare_failed = {}
    /\ msgSeq = 0
    /\ proxy = [i \in ProxyIds |-> NewProxy]
    /\ calls = 0
    /\ consumer = NewConsumer
    /\ holder = NewHolder
    /\ eval = NoEval

NextSleep ==
    \/ \E t \in Racers, n \in SleepNames : CallDeclareQueue(t, n, TRUE)
    \/ \E t \in Racers : DeclareQueueCheck(t)
    \/ \E t \in Racers : DeclareQueueLock(t)
    \/ \E t \in Racers : DeclareQueueRegister(t)
    \/ \E t \in Racers : EnsureLock(t)
    \/ \E t \in Racers : EnsureStart(t)
    \/ \E t \in Racers : EnsureDeclare(t)
    \/ \E t \in Racers : EnsureDeclareFails(t)
    \/ \E t \in Racers : EnsureDone(t)
    \/ \E t \in Racers, n \in SleepNames : CallEnqueue(t, n, NoInt)
    \/ \E t \in Racers : EnqueueValidate(t)
    \/ \E t \in Racers : EnqueuePublish(t)
    \/ \E t \in Racers : EnqueueRecoverLock(t)
    \/ \E t \in Racers : EnqueueRecover(t)
    \/ \E t \in Racers : EnqueueRecoverUnlock(t)
    \/ \E t \in Racers : EnqueueRetryPublish(t)
    \/ \E q \in SleepNames : OutOfBandDelete(q)

SpecSleep == InitSleep /\ [][NextSleep]_vars

\* ------------------------------------------------------------------------
\* MessageProxy.ack() / nack() over one kombu delivery
\* ------------------------------------------------------------------------
\* kombu.Message.acknowledged
ACK_STATES == {"ACK", "REJECTED", "REQUEUED"}
acknowledged(m) == m.state \in ACK_STATES

\* the `if self._kombu_message.acknowledged` guard of ack() and nack()
\* variant: ack()/nack() without the early return
AlreadyAcknowledged_never(m) == FALSE

AlreadyAcknowledged(m) == acknowledged(m)

\* self._kombu_message.ack() / .reject() inside the try of ack() and nack():
\* refuses an acknowledged message, otherwise sends the frame (wireOk) or
\* raises a transport error; what is raised is stored and raised again
\* variant: the error is swallowed and False returned
KombuAcknowledge_swallowed(m, newState, wireOk) ==
    IF ~acknowledged(m) /\ wireOk
    THEN [m EXCEPT !.state = newState, !.wire = @ + 1, !.ret = "True"]
    ELSE [m EXCEPT !.ret = "False"]

KombuAcknowledge(m, newState, wireOk) ==
    IF acknowledged(m) THEN [m EXCEPT !.ret = "raised",
                                      !.last_acknowledge_error = "MessageStateError"]
    ELSE IF wireOk THEN [m EXCEPT !.state = newState, !.wire = @ + 1, !.ret = "True"]
    ELSE [m EXCEPT !.ret = "raised", !.last_acknowledge_error = "TransportError"]

MessageProxy_ack(m, wireOk) ==
    IF AlreadyAcknowledged(m)
    THEN [m EXCEPT !.ret = IF m.failed THEN "False" ELSE "True"]
    ELSE KombuAcknowledge(m, "ACK", wireOk)

MessageProxy_nack(m, wireOk) ==
    IF AlreadyAcknowledged(m)
    THEN [m EXCEPT !.ret = IF ~m.failed THEN "False" ELSE "True"]
    ELSE KombuAcknowledge(m, "REJECTED", wireOk)

brokerVars == <<topology, max_delay_time, max_declare_attempts, queues, queues_pending,
                declare_lock, rmq, now, th, emitted, rearms, declared, declare_failed,
                msgSeq, budget>>

Ack(i, wireOk) ==
    /\ calls < MaxProxyCalls
    /\ calls' = calls + 1
    /\ proxy' = [proxy EXCEPT ![i] =
                     [MessageProxy_ack(@, wireOk) EXCEPT
                          !.wasAcked = acknowledged(proxy[i]), !.last = "ack",
                          !.wireFailed = ~acknowledged(proxy[i]) /\ ~wireOk]]
    /\ UNCHANGED <<brokerVars, consumer, holder, eval>>

Nack(i, wireOk) ==
    /\ calls < MaxProxyCalls
    /\ calls' = calls + 1
    /\ proxy' = [proxy EXCEPT ![i] =
                     [MessageProxy_nack(@, wireOk) EXCEPT
                          !.wasAcked = acknowledged(proxy[i]), !.last = "nack",
                          !.wireFailed = ~acknowledged(proxy[i]) /\ ~wireOk]]
    /\ UNCHANGED <<brokerVars, consumer, holder, eval>>

\* dramatiq's MessageProxy.fail(): marks the message failed
Fail(i) ==
    /\ calls < MaxProxyCalls
    /\ ~proxy[i].failed
    /\ calls' = calls + 1
    /\ proxy' = [proxy EXCEPT ![i].failed = TRUE]
    /\ UNCHANGED <<brokerVars, consumer, holder, eval>>

\* a broker that is not used: default topology, nothing the environment may do
QuietBroker ==
    /\ topology = "default"
    /\ max_delay_time = NoInt
    /\ max_declare_attempts = NoInt
    /\ budget = [ops |-> 0, oob |-> 0, fail |-> 0, ticks |-> 0]
    /\ InitBroker

InitProxy ==
    /\ QuietBroker
    /\ consumer = NewConsumer
    /\ holder = NewHolder
    /\ eval = NoEval

NextProxy ==
    \/ \E i \in ProxyIds, wireOk \in BOOLEAN : Ack(i, wireOk)
    \/ \E i \in ProxyIds, wireOk \in BOOLEAN : Nack(i, wireOk)
    \/ \E i \in ProxyIds : Fail(i)

SpecProxy == InitProxy /\ [][NextProxy]_vars


\* ------------------------------------------------------------------------
\* DramatiqConsumer: ack()/nack() from any thread, the pull cycle (__next__)
\* on the thread that built the consumer, close()
\* ------------------------------------------------------------------------
MaxSubmits == 2
MaxWireErrors == 1

\* self._owner_id: the thread that built the consumer and iterates it
Owner == 1

\* what self._reader.pop() meets while reading
ReadOutcomes ==
    {"delivery", "Empty", "TimeoutError", "ConnectionError", "ChannelError", "OtherError"}

\* what heartbeat_check() does after a read that gave no message
BeatOutcomes == {"ok", "ConnectionError"}

\* self._conn_errors: the connection's connection_errors and channel_errors
_conn_errors == {"ConnectionError", "ChannelError"}

\* DramatiqConsumer._is_threadsafe on thread t
_is_threadsafe_anywhere(t) == TRUE

_is_threadsafe(t) == consumer.channel_threadsafe \/ t = Owner

\* a frame written to the channel goes out, or the transport raises
WireOutcomes == IF consumer.wire_errors < MaxWireErrors THEN BOOLEAN ELSE {TRUE}

\* callers are interchangeable: they are numbered in the order of their first call
MayAcknowledge(t) == IF t <= 2 THEN TRUE ELSE (t - 1) \in consumer.called

\* the deferred actions waiting in both queues
QueuedSubs ==
    {consumer.ack_queue[k].sub : k \in 1..Len(consumer.ack_queue)}
        \cup {consumer.nack_queue[k].sub : k \in 1..Len(consumer.nack_queue)}

\* _ack_or_log_error / _nack_or_log_error: MessageProxy.ack() or .nack(), its
\* result dropped, whatever it raises logged and dropped
Acknowledged(kind, i, wireOk) ==
    [(IF kind = "ack" THEN MessageProxy_ack(proxy[i], wireOk)
      ELSE MessageProxy_nack(proxy[i], wireOk)) EXCEPT !.ret = "none"]

\* the consumer after thread t ran an acknowledgement of message i
Wired(c, t, i, after, wireOk) ==
    [c EXCEPT !.wire_on = IF after.wire > proxy[i].wire THEN @ \cup {t} ELSE @,
              !.wire_errors = IF wireOk THEN @ ELSE @ + 1]

\* DramatiqConsumer.ack(message, block, timeout) / .nack(...) called on thread t
ConsumerAcknowledge(t, kind, i, block, timeout) ==
    /\ consumer.caller[t].pc = "idle"
    /\ MayAcknowledge(t)
    /\ t = Owner => consumer.pc = "idle"
    /\ i \in consumer.delivered
    /\ consumer.subs < MaxSubmits
    /\ LET item == [sub |-> consumer.subs + 1, msg |-> i,
                    done |-> IF block THEN t ELSE NoThread]
           counted == [consumer EXCEPT !.subs = @ + 1, !.called = @ \cup {t}]
       IN IF _is_threadsafe(t) /\ block
          THEN \E wireOk \in WireOutcomes :
                 LET after == Acknowledged(kind, i, wireOk) IN
                 /\ proxy' = [proxy EXCEPT ![i] = after]
                 /\ consumer' = Wired(counted, t, i, after, wireOk)
          ELSE LET queued == IF kind = "ack"
                             THEN [counted EXCEPT !.ack_queue = Append(@, item)]
                             ELSE [counted EXCEPT !.nack_queue = Append(@, item)]
               IN /\ UNCHANGED proxy
                  /\ consumer' =
                       [queued EXCEPT
                           !.caller[t] = IF block
                                         THEN [pc |-> "waiting", timeout |-> timeout]
                                         ELSE @,
                           !.events = @ \ {t}]
    /\ UNCHANGED <<brokerVars, calls, holder, eval>>

\* done.wait(timeout) returns: the event was set
WaitDone(t) ==
    /\ consumer.caller[t].pc = "waiting"
    /\ t \in consumer.events
    /\ consumer' = [consumer EXCEPT !.caller[t] = [pc |-> "idle", timeout |-> FALSE],
                                    !.events = @ \ {t}]
    /\ UNCHANGED <<brokerVars, proxy, calls, holder, eval>>

\* done.wait(timeout) returns: a timeout was given and has elapsed
WaitTimeout(t) ==
    /\ consumer.caller[t].pc = "waiting"
    /\ consumer.caller[t].timeout
    /\ consumer' = [consumer EXCEPT !.caller[t] = [pc |-> "idle", timeout |-> FALSE]]
    /\ UNCHANGED <<brokerVars, proxy, calls, holder, eval>>

\* __next__ is entered on the owner thread
PullStart ==
    /\ consumer.pc = "idle"
    /\ ~consumer.closed
    /\ consumer.caller[Owner].pc = "idle"
    /\ consumer' = [consumer EXCEPT !.pc = "drain_ack", !.snapshot = QueuedSubs]
    /\ UNCHANGED <<brokerVars, proxy, calls, holder, eval>>

\* the loop conditions `while self._ack_queue` / `while self._nack_queue`
AckQueuePending == consumer.ack_queue # <<>>

NackQueuePending_skipped == FALSE

NackQueuePending == consumer.nack_queue # <<>>

\* deque.popleft(): the oldest entry and what stays queued
popleft_newest(q) == [item |-> q[Len(q)], rest |-> SubSeq(q, 1, Len(q) - 1)]

popleft(q) == [item |-> Head(q), rest |-> Tail(q)]

\* the acknowledgement on the owner thread, done_event.set()
Drained(item, kind, after, wireOk) ==
    [Wired(consumer, Owner, item.msg, after, wireOk) EXCEPT
        !.executed = @ \cup {item.sub},
        !.last[kind] = item.sub,
        !.events = IF item.done # NoThread THEN @ \cup {item.done} ELSE @]

\* _process_queued_ack_events, one turn of its loop
DrainAck ==
    /\ consumer.pc = "drain_ack"
    /\ IF AckQueuePending
       THEN \E wireOk \in WireOutcomes :
              LET item == popleft(consumer.ack_queue).item
                  after == Acknowledged("ack", item.msg, wireOk)
              IN /\ proxy' = [proxy EXCEPT ![item.msg] = after]
                 /\ consumer' = [Drained(item, "ack", after, wireOk) EXCEPT
                                    !.ack_queue = popleft(consumer.ack_queue).rest]
       ELSE /\ consumer' = [consumer EXCEPT !.pc = "drain_nack"]
            /\ UNCHANGED proxy
    /\ UNCHANGED <<brokerVars, calls, holder, eval>>

\* _process_queued_nack_events, one turn of its loop
DrainNack ==
    /\ consumer.pc = "drain_nack"
    /\ IF NackQueuePending
       THEN \E wireOk \in WireOutcomes :
              LET item == popleft(consumer.nack_queue).item
                  after == Acknowledged("nack", item.msg, wireOk)
              IN /\ proxy' = [proxy EXCEPT ![item.msg] = after]
                 /\ consumer' = [Drained(item, "nack", after, wireOk) EXCEPT
                                    !.nack_queue = popleft(consumer.nack_queue).rest]
       ELSE /\ consumer' = [consumer EXCEPT !.pc = "pop"]
            /\ UNCHANGED proxy
    /\ UNCHANGED <<brokerVars, calls, holder, eval>>

\* QueueReader.pop: Empty and TimeoutError become None, a delivery is
\* returned, anything else is raised again
QueueReader_pop_quiet(raw) == IF raw = "delivery" THEN "delivery" ELSE "None"

QueueReader_pop(raw) ==
    IF raw \in {"Empty", "TimeoutError"} THEN "None" ELSE raw

\* what the first try block of __next__ comes to when pop() gave `got` and,
\* with no message, heartbeat_check() went `beat`
PullResult(got, beat) ==
    IF got = "None"
    THEN (IF beat \in _conn_errors THEN "dramatiq.ConnectionError" ELSE "None")
    ELSE IF got \in _conn_errors THEN "dramatiq.ConnectionError"
    ELSE got

\* the cycle is over: __next__ returns or raises `res`
Pulled(c, res) == [c EXCEPT !.pc = "return", !.ret = res, !.snapshot = {}]

\* message.reject_log_error(logger, errors=(Exception,)): basic.reject with
\* requeue False sends the delivery to the dead-letter queue; when the frame
\* cannot be written the error is logged and the delivery stays unacknowledged
reject_log_error_requeue(c, id, rejectOk) ==
    [c EXCEPT !.inbox = Append(@, [id |-> id, valid |-> FALSE])]

reject_log_error(c, id, rejectOk) ==
    [c EXCEPT !.dead = IF rejectOk THEN Append(@, id) ELSE @,
              !.unacked = IF rejectOk THEN @ ELSE @ \cup {id},
              !.wire_errors = IF rejectOk THEN @ ELSE @ + 1]

\* the rest of __next__: read, decode, reject what does not decode
Pop(raw, beat, rejectOk) ==
    /\ consumer.pc = "pop"
    /\ raw = "delivery" => consumer.inbox # <<>>
    /\ rejectOk \in WireOutcomes
    /\ LET res == PullResult(QueueReader_pop(raw), beat) IN
       IF res = "delivery"
       THEN LET d == Head(consumer.inbox)
                read == [consumer EXCEPT !.inbox = Tail(@), !.raw = raw]
            IN IF d.valid
               THEN consumer' = [Pulled(read, "message") EXCEPT
                                     !.delivered = @ \cup {d.id}]
               ELSE consumer' = [Pulled(reject_log_error(read, d.id, rejectOk), "None")
                                     EXCEPT !.raw = "undecodable"]
       ELSE consumer' = [Pulled(consumer, res) EXCEPT
                             !.raw = IF QueueReader_pop(raw) = "None" /\ res # "None"
                                     THEN "heartbeat" ELSE raw]
    /\ UNCHANGED <<brokerVars, proxy, calls, holder, eval>>

\* the worker loop takes what __next__ returned or raised
PullReturn ==
    /\ consumer.pc = "return"
    /\ consumer' = [consumer EXCEPT !.pc = "idle", !.ret = "none", !.raw = "none"]
    /\ UNCHANGED <<brokerVars, proxy, calls, holder, eval>>

\* DramatiqConsumer.close(): the owner stops iterating the consumer
ConsumerClose ==
    /\ consumer.pc = "idle"
    /\ ~consumer.closed
    /\ consumer' = [consumer EXCEPT !.closed = TRUE]
    /\ UNCHANGED <<brokerVars, proxy, calls, holder, eval>>

\* two deliveries wait on the server: the body of one decodes, the body of
\* the other does not
Inboxes ==
    {<<[id |-> 1, valid |-> v], [id |-> 2, valid |-> ~v]>> : v \in BOOLEAN}

\* DramatiqConsumer (channel_threadsafe False) or ThreadSafeDramatiqConsumer
InitConsumer ==
    /\ QuietBroker
    /\ consumer \in {[NewConsumer EXCEPT !.channel_threadsafe = b, !.inbox = q] :
                         b \in BOOLEAN, q \in Inboxes}
    /\ holder = NewHolder
    /\ eval = NoEval

NextConsumer ==
    \/ \E t \in Threads, kind \in {"ack", "nack"}, i \in ProxyIds,
          block \in BOOLEAN, timeout \in BOOLEAN :
            ConsumerAcknowledge(t, kind, i, block, timeout)
    \/ \E t \in Threads : WaitDone(t)
    \/ \E t \in Threads : WaitTimeout(t)
    \/ PullStart
    \/ DrainAck
    \/ DrainNack
    \/ \E raw \in ReadOutcomes, beat \in BeatOutcomes, rejectOk \in BOOLEAN :
            Pop(raw, beat, rejectOk)
    \/ PullReturn
    \/ ConsumerClose

\* the owner thread keeps iterating the consumer until it closes it, a
\* waiter wakes up once its event is set or its timeout has run out
ConsumerFairness ==
    /\ WF_vars(PullStart)
    /\ WF_vars(DrainAck)
    /\ WF_vars(DrainNack)
    /\ WF_vars(\E raw \in ReadOutcomes, beat \in BeatOutcomes, rejectOk \in BOOLEAN :
                  Pop(raw, beat, rejectOk))
    /\ WF_vars(PullReturn)
    /\ \A t \in Threads : WF_vars(WaitDone(t)) /\ WF_vars(WaitTimeout(t))

SpecConsumer == InitConsumer /\ [][NextConsumer]_vars /\ ConsumerFairness

\* ------------------------------------------------------------------------
\* QueueReader: check() and pop(timeout)
\* ------------------------------------------------------------------------
MaxReaderCalls == 3
MaxConsumerCloses == 2

\* what consumer.consume() (basic.consume) comes to
RegisterOutcomes == {"ok", "NotFound", "ConnectionError"}

\* what drain_events(timeout=0) comes to in check()
DrainOutcomes == {"ok", "TimeoutError", "ConnectionError"}

\* a connection or channel error ends the channel and, with it, every
\* registration the server held for it
Broken(outcome) == outcome \in _conn_errors \cup {"NotFound"}

\* SimpleBase._consume(): registers unless self._consuming says it is done
Consumed(r, reg) ==
    IF r._consuming THEN r
    ELSE IF reg = "ok" THEN [r EXCEPT !._consuming = TRUE, !.registered = TRUE]
    ELSE [r EXCEPT !.registered = FALSE]

\* `self._consuming = False` and `self.consumer.cancel()`: the registration is
\* cancelled, or was lost with the channel when the cancel fails
\* variant: the reader still believes it is consuming
Cancelled_consuming(r) == [r EXCEPT !.registered = FALSE]

Cancelled(r) == [r EXCEPT !._consuming = FALSE, !.registered = FALSE]

\* check()
ReaderCheck(reg, drain, cancelOk) ==
    LET r == consumer.reader
        call == [NoReaderCall EXCEPT !.op = "check", !.was_consuming = r._consuming]
    IN
    /\ r.calls < MaxReaderCalls
    /\ r.closes = 0
    /\ r._consuming => (reg = "ok" /\ drain = "ok" /\ cancelOk)
    /\ reg # "ok" => drain = "ok"
    /\ ~cancelOk => (Broken(reg) \/ Broken(drain))
    /\ consumer' = [consumer EXCEPT !.reader =
          IF r._consuming
          THEN [r EXCEPT !.calls = @ + 1, !.last = [call EXCEPT !.result = "RuntimeError"]]
          ELSE [Cancelled(Consumed(r, reg)) EXCEPT
                   !.calls = @ + 1,
                   !.last = [call EXCEPT
                       !.reg = reg, !.read = IF reg = "ok" THEN drain ELSE "none",
                       !.cancelled = TRUE, !.cancelOk = cancelOk,
                       !.result = IF ~cancelOk THEN "CancelError"
                                  ELSE IF reg # "ok" THEN reg
                                  ELSE IF drain = "TimeoutError" THEN "ok"
                                  ELSE drain]]]
    /\ UNCHANGED <<brokerVars, proxy, calls, holder, eval>>

\* pop(timeout): get() registers if need be and reads one delivery
ReaderPop(reg, read, cancelOk) ==
    LET r == consumer.reader
        met == IF ~r._consuming /\ reg # "ok" THEN reg ELSE read
        call == [NoReaderCall EXCEPT !.op = "pop", !.was_consuming = r._consuming,
                    !.reg = IF r._consuming THEN "none" ELSE reg,
                    !.read = IF ~r._consuming /\ reg # "ok" THEN "none" ELSE read]
        again == IF ~r._consuming /\ reg = "ok" /\ r.last.op = "pop"
                      /\ r.last.cancelled
                 THEN 1 ELSE 0
    IN
    /\ r.calls < MaxReaderCalls
    /\ r.closes = 0
    /\ r._consuming => reg = "ok"
    /\ (~r._consuming /\ reg # "ok") => read = "Empty"
    /\ ~cancelOk => Broken(met)
    /\ consumer' = [consumer EXCEPT !.reader =
          IF QueueReader_pop(met) \in {"None", "delivery"}
          THEN [Consumed(r, reg) EXCEPT
                   !.calls = @ + 1, !.restarts = @ + again,
                   !.last = [call EXCEPT !.result = QueueReader_pop(met)]]
          ELSE [Cancelled(Consumed(r, reg)) EXCEPT
                   !.calls = @ + 1, !.restarts = @ + again,
                   !.last = [call EXCEPT !.cancelled = TRUE, !.cancelOk = cancelOk,
                                          !.result = QueueReader_pop(met)]]]
    /\ UNCHANGED <<brokerVars, proxy, calls, holder, eval>>

\* DramatiqConsumer.close(): the reader is closed (its consumer cancelled) if
\* it is consuming, then `self.channel.release()`; errors of both are dropped.
\* A consumer that was closed is not read from any more.
DramatiqConsumer_close ==
    LET r == consumer.reader IN
    /\ r.closes < MaxConsumerCloses
    /\ consumer' = [consumer EXCEPT !.reader =
                       [r EXCEPT !.registered = IF r._consuming THEN FALSE ELSE @,
                                 !.closes = @ + 1,
                                 !.releases = @ + 1,
                                 !.last = [NoReaderCall EXCEPT !.op = "close",
                                              !.was_consuming = r._consuming,
                                              !.cancelled = r._consuming]]]
    /\ UNCHANGED <<brokerVars, proxy, calls, holder, eval>>

NextReader ==
    \/ DramatiqConsumer_close
    \/ \E reg \in RegisterOutcomes, drain \in DrainOutcomes, cancelOk \in BOOLEAN :
          ReaderCheck(reg, drain, cancelOk)
    \/ \E reg \in RegisterOutcomes, read \in ReadOutcomes, cancelOk \in BOOLEAN :
          ReaderPop(reg, read, cancelOk)

InitReader ==
    /\ QuietBroker
    /\ consumer = [NewConsumer EXCEPT !.reader = NewReader]
    /\ holder = NewHolder
    /\ eval = NoEval

SpecReader == InitReader /\ [][NextReader]_vars

\* ------------------------------------------------------------------------
\* Connection holders (shared, pooled): acquire_consumer_channel(),
\* acquire_producer(), close(), and an enqueue that goes through them
\* ------------------------------------------------------------------------
MaxHolderCalls == 2
MaxCloses == 2
MaxFlips == 1

HolderOps == {"enqueue", "acquire_consumer_channel", "acquire_producer"}

\* the connection an operation stage works on
Role(c) ==
    IF c.stage = "declare" \/ c.op = "acquire_consumer_channel"
    THEN "consumer" ELSE "producer"

\* block= of the pool acquire: _declare_queue and a direct caller pass
\* nothing (shared acquire_consumer_channel: False; everything else: True),
\* _enqueue_message passes block=True
Blocking(c) ==
    ~(holder.kind = "shared" /\ Role(c) = "consumer")

\* timeout= of the pool acquire: only _enqueue_message passes one
AcquireTimeout(c) ==
    IF c.op = "enqueue" /\ c.stage = "acquire" THEN holder.conf.acquire_timeout ELSE NoInt

\* retry_over_time / Connection.ensure give up when retries >= max_retries,
\* and never when max_retries is None
Exhausted(limit, n) == limit # NoInt /\ n >= limit

\* one more retry; with no limit the count is not kept
Retried(limit, n) == IF limit = NoInt THEN n ELSE n + 1

\* the call is over: it returns or raises `res`
HolderDone(c, res) == [c EXCEPT !.stage = "done", !.result = res]

\* the pool has no free connection or channel for the stage
PoolExhausted(c) == holder.busy = Role(c)

\* Resource.acquire on a pool that force_close_all() has closed
PoolClosed(c) == holder.kind = "pooled" /\ holder.pool_closed[Role(c)]

\* the stage cannot go on: an acquire that blocks with no timeout waits for
\* a release, a publish with no confirm timeout waits for the confirmation
HolderBlocked(c) ==
    \/ c.stage \in {"declare", "acquire"} /\ ~PoolClosed(c) /\ PoolExhausted(c)
            /\ Blocking(c) /\ AcquireTimeout(c) = NoInt
    \/ c.stage = "confirm_wait"

\* ensure_connection / Connection.ensure with max_retries=connect_max_retries
\* while the transport is down, inside the retry of the declare
ConnectFailed(c) ==
    IF ~Exhausted(holder.conf.connect_max_retries, c.retries)
    THEN [c EXCEPT !.retries = Retried(holder.conf.connect_max_retries, @),
                   !.asleep = TRUE]
    ELSE IF c.stage # "declare" THEN HolderDone(c, "ConnectionError")
    ELSE IF RetriesExhausted(c.tries) THEN HolderDone(c, "ConnectionClosed")
    ELSE [c EXCEPT !.retries = 0, !.tries = Retried(max_declare_attempts, @),
                   !.asleep = TRUE]

\* producer.publish(retry=True, retry_policy={max_retries: max_enqueue_attempts})
\* while the transport is down
PublishFailed(c) ==
    IF Exhausted(holder.conf.max_enqueue_attempts, c.tries)
    THEN HolderDone(c, "ConnectionError")
    ELSE [c EXCEPT !.tries = Retried(holder.conf.max_enqueue_attempts, @),
                   !.asleep = TRUE]

\* a call of the holder, or an enqueue, begins
HolderCall(op) ==
    /\ holder.call.op = "none"
    /\ holder.calls < MaxHolderCalls
    /\ holder' = [holder EXCEPT
                     !.calls = @ + 1,
                     !.call = [NoCall EXCEPT
                                  !.op = op,
                                  !.stage = IF op = "enqueue" /\ ~holder.declared
                                            THEN "declare" ELSE "acquire"]]
    /\ UNCHANGED <<brokerVars, proxy, calls, consumer, eval>>

\* one attempt of the stage the call is in, or the end of the sleep that
\* follows a failed attempt
HolderStep(hang) ==
    LET c == holder.call
        dirty == [c EXCEPT !.clean = FALSE]
    IN
    /\ c.op # "none"
    /\ c.stage \in {"declare", "acquire", "publish"}
    /\ ~HolderBlocked(c)
    /\ hang => (c.stage = "publish" /\ ~c.asleep /\ ~holder.up
                    /\ holder.conf.confirm_timeout = NoInt)
    /\ IF c.asleep
       THEN holder' = [holder EXCEPT !.call.asleep = FALSE]
       ELSE IF c.stage = "publish"
       THEN IF holder.up
            THEN holder' = [holder EXCEPT !.call = HolderDone(c, "ok")]
            ELSE IF hang
            THEN holder' = [holder EXCEPT !.call = [dirty EXCEPT !.stage = "confirm_wait"]]
            ELSE holder' = [holder EXCEPT !.call = PublishFailed(dirty),
                                          !.connected.producer = FALSE]
       ELSE IF PoolClosed(c)
       THEN holder' = [holder EXCEPT !.call = HolderDone(c, "RuntimeError")]
       ELSE IF PoolExhausted(c)
       THEN holder' = [holder EXCEPT !.call = HolderDone(dirty, "LimitExceeded")]
       ELSE IF ~holder.up
       THEN holder' = [holder EXCEPT !.call = ConnectFailed(dirty),
                                     !.connected[Role(c)] = FALSE]
       ELSE holder' = [holder EXCEPT
                          !.connected[Role(c)] = TRUE,
                          !.declared = IF c.stage = "declare" THEN TRUE ELSE @,
                          !.call = IF c.stage = "declare"
                                   THEN [c EXCEPT !.stage = "acquire", !.retries = 0,
                                                  !.tries = 0]
                                   ELSE IF c.op = "enqueue"
                                   THEN [c EXCEPT !.stage = "publish", !.retries = 0]
                                   ELSE HolderDone(c, "ok")]
    /\ UNCHANGED <<brokerVars, proxy, calls, consumer, eval>>

\* the caller has the result and releases what it acquired
HolderReturn ==
    /\ holder.call.stage = "done"
    /\ holder' = [holder EXCEPT !.call = NoCall, !.last = holder.call.op]
    /\ UNCHANGED <<brokerVars, proxy, calls, consumer, eval>>

\* kombu Connection.close(): errors of the transport are swallowed
Connection_close(connected) == FALSE

\* SharedConnectionHolder.close(): each connection that reports connected is
\* closed
SharedConnectionHolder_close_consumer_only(h) ==
    [h EXCEPT !.connected.consumer = Connection_close(@)]

SharedConnectionHolder_close(h) ==
    [h EXCEPT !.connected = [consumer |-> IF @.consumer THEN Connection_close(TRUE) ELSE FALSE,
                             producer |-> IF @.producer THEN Connection_close(TRUE) ELSE FALSE]]

\* the assignment pool._closed = False after the resize
pool_closed_after_close_forgotten == TRUE

pool_closed_after_close == FALSE

\* PooledConnectionHolder.close(): resize(reset=True) closes every connection
\* of the pool, the ones in use too, and marks the pool closed
PooledConnectionHolder_close(h) ==
    [h EXCEPT !.connected = [consumer |-> FALSE, producer |-> FALSE],
              !.pool_closed = [consumer |-> pool_closed_after_close,
                               producer |-> pool_closed_after_close],
              !.busy = "none"]

\* ConnectionBroker.close() between two calls
HolderClose ==
    /\ holder.call.op = "none"
    /\ holder.closes < MaxCloses
    /\ LET closed == IF holder.kind = "shared"
                     THEN SharedConnectionHolder_close(holder)
                     ELSE PooledConnectionHolder_close(holder)
       IN holder' = [closed EXCEPT !.closes = @ + 1, !.close_result = "returned",
                                   !.last = "close"]
    /\ UNCHANGED <<brokerVars, proxy, calls, consumer, eval>>

\* the transport stops answering, or answers again
TransportFlip ==
    /\ holder.flips < MaxFlips
    /\ holder' = [holder EXCEPT !.up = ~@, !.flips = @ + 1]
    /\ UNCHANGED <<brokerVars, proxy, calls, consumer, eval>>

\* other threads take the last free connection or channel of a pool, or
\* give one back
PoolHold(role) ==
    /\ holder.flips < MaxFlips
    /\ holder' = [holder EXCEPT !.busy = IF @ = role THEN "none" ELSE role,
                                !.flips = @ + 1]
    /\ UNCHANGED <<brokerVars, proxy, calls, consumer, eval>>

\* the holder class and the limits the broker was built with
HolderConfs ==
    [confirm_timeout : {NoInt, 5}, acquire_timeout : {NoInt, 10},
     max_enqueue_attempts : {NoInt, 1}, connect_max_retries : {NoInt, 1}]

InitHolder ==
    /\ topology = "default"
    /\ max_delay_time = NoInt
    /\ max_declare_attempts \in {NoInt, 1}
    /\ budget = [ops |-> 0, oob |-> 0, fail |-> 0, ticks |-> 0]
    /\ InitBroker
    /\ consumer = NewConsumer
    /\ holder \in {[NewHolder EXCEPT !.kind = k, !.conf = cf] :
                       k \in {"shared", "pooled"}, cf \in HolderConfs}
    /\ eval = NoEval

NextHolder ==
    \/ \E op \in HolderOps : HolderCall(op)
    \/ \E hang \in BOOLEAN : HolderStep(hang)
    \/ HolderReturn
    \/ HolderClose
    \/ TransportFlip
    \/ \E role \in {"consumer", "producer"} : PoolHold(role)

\* the calling thread keeps running; nothing obliges the transport to come
\* back or other threads to release what they hold
HolderFairness ==
    /\ WF_vars(\E hang \in BOOLEAN : HolderStep(hang))
    /\ WF_vars(HolderReturn)

SpecHolder == InitHolder /\ [][NextHolder]_vars /\ HolderFairness

\* ------------------------------------------------------------------------
\* The consumer channel pool of SharedConnectionHolder:
\* acquire_consumer_channel(block, timeout) and the release of a channel
\* ------------------------------------------------------------------------
MaxAcquires == 3

ChannelPoolSizes == {1, 2}

RECURSIVE SumTo(_, _)
SumTo(f, n) == IF n = 0 THEN 0 ELSE f[n] + SumTo(f, n - 1)

\* the channels of the pool that are held (its _dirty set)
HeldChannels(p) == SumTo(p.held, NumThreads)

\* Resource._add_when_empty: len(self._dirty) >= self.limit
\* variant: the limit compared with > instead of >=
PoolLimitReached_late(p) == HeldChannels(p) > p.consumer_channel_pool_size

PoolLimitReached(p) == HeldChannels(p) >= p.consumer_channel_pool_size

\* a blocked acquire keeps self._conn_lock, so no other acquire gets in
ConnLockFree == \A u \in Threads : ~holder.channels.call[u].waiting

\* ghost: 1 after a refused acquire, 2 after a release that followed it,
\* 3 after an acquire that succeeded after that
NextPhase(phase, event) ==
    IF phase = 0 /\ event = "ChannelLimitExceeded" THEN 1
    ELSE IF phase = 1 /\ event = "release" THEN 2
    ELSE IF phase = 2 /\ event = "ok" THEN 3
    ELSE phase

\* the channel is handed out
Granted(p, t, block, timeout) ==
    [p EXCEPT !.held[t] = @ + 1,
              !.call[t] = [result |-> "ok", block |-> block, timeout |-> timeout,
                           waiting |-> FALSE],
              !.phase = NextPhase(@, "ok")]

\* Resource.acquire raises LimitExceeded: the pool is left as it was
Refused(p, t, block, timeout) ==
    [p EXCEPT !.call[t] = [result |-> "ChannelLimitExceeded", block |-> block,
                           timeout |-> timeout, waiting |-> FALSE],
              !.phase = NextPhase(@, "ChannelLimitExceeded")]

\* acquire_consumer_channel(block, timeout): one pool.acquire under
\* self._conn_lock, no retry (LimitExceeded is not a recoverable error of
\* Connection.ensure); a blocking acquire on an empty pool waits
AcquireConsumerChannel(t, block, timeout) ==
    LET p == holder.channels IN
    /\ p.acquires < MaxAcquires
    /\ ConnLockFree
    /\ ~block => timeout = NoInt
    /\ holder' = [holder EXCEPT !.channels =
          IF ~PoolLimitReached(p)
          THEN [Granted(p, t, block, timeout) EXCEPT !.acquires = @ + 1]
          ELSE IF ~block
          THEN [Refused(p, t, block, timeout) EXCEPT !.acquires = @ + 1]
          ELSE [p EXCEPT !.acquires = @ + 1,
                         !.call[t] = [result |-> "none", block |-> block,
                                      timeout |-> timeout, waiting |-> TRUE]]]
    /\ UNCHANGED <<brokerVars, proxy, calls, consumer, eval>>

\* a channel came back while the acquire was waiting
ChannelWaitDone(t) ==
    LET p == holder.channels IN
    /\ p.call[t].waiting
    /\ ~PoolLimitReached(p)
    /\ holder' = [holder EXCEPT !.channels =
                     Granted(p, t, p.call[t].block, p.call[t].timeout)]
    /\ UNCHANGED <<brokerVars, proxy, calls, consumer, eval>>

\* the timeout of a waiting acquire ran out: queue.get raises Empty and
\* _add_when_empty raises LimitExceeded
ChannelWaitTimeout(t) ==
    LET p == holder.channels IN
    /\ p.call[t].waiting
    /\ p.call[t].timeout # NoInt
    /\ PoolLimitReached(p)
    /\ holder' = [holder EXCEPT !.channels =
                     Refused(p, t, p.call[t].block, p.call[t].timeout)]
    /\ UNCHANGED <<brokerVars, proxy, calls, consumer, eval>>

\* channel.release(), the end of a `with` block
ReleaseChannel(t) ==
    LET p == holder.channels IN
    /\ p.held[t] > 0
    /\ ~p.call[t].waiting
    /\ holder' = [holder EXCEPT !.channels =
                     [p EXCEPT !.held[t] = @ - 1, !.phase = NextPhase(@, "release")]]
    /\ UNCHANGED <<brokerVars, proxy, calls, consumer, eval>>

InitChannels ==
    /\ topology = "default"
    /\ max_delay_time = NoInt
    /\ max_declare_attempts = NoInt
    /\ budget = [ops |-> 0, oob |-> 0, fail |-> 0, ticks |-> 0]
    /\ InitBroker
    /\ consumer = NewConsumer
    /\ holder \in {[NewHolder EXCEPT !.channels.consumer_channel_pool_size = n] :
                       n \in ChannelPoolSizes}
    /\ eval = NoEval

NextChannels ==
    \/ \E t \in Threads, block \in BOOLEAN, timeout \in {NoInt, 5} :
          AcquireConsumerChannel(t, block, timeout)
    \/ \E t \in Threads : ChannelWaitDone(t)
    \/ \E t \in Threads : ChannelWaitTimeout(t)
    \/ \E t \in Threads : ReleaseChannel(t)

SpecChannels == InitChannels /\ [][NextChannels]_vars

\* ------------------------------------------------------------------------
\* SharedConnectionHolder under concurrency: acquire_producer() and
\* acquire_consumer_channel() run under self._conn_lock, close() does not
\* take it
\* ------------------------------------------------------------------------
MaxSharedCalls == 3

Roles == {"consumer", "producer"}

\* `with self._conn_lock:` entered by acquire_producer / acquire_consumer_channel
SharedAcquireLock(t, role) ==
    LET h == holder.shared IN
    /\ h.at[t] = "idle"
    /\ h.calls < MaxSharedCalls
    /\ h.conn_lock = NoThread
    /\ holder' = [holder EXCEPT !.shared =
                     [h EXCEPT !.conn_lock = t, !.calls = @ + 1, !.at[t] = "acquire",
                               !.role[t] = role, !.channel[t] = NoChannel,
                               !.result[t] = "none"]]
    /\ UNCHANGED <<brokerVars, proxy, calls, consumer, eval>>

\* conn.ensure(conn, pool.acquire)(block, timeout): the connection is
\* (re-)established if it was not connected and a channel of it is handed out
SharedAcquireChannel(t) ==
    LET h == holder.shared IN
    /\ h.at[t] = "acquire"
    /\ holder' = [holder EXCEPT
                     !.connected[h.role[t]] = TRUE,
                     !.shared = [h EXCEPT !.at[t] = "assert",
                                   !.channel[t] = [role |-> h.role[t], is_open |-> TRUE]]]
    /\ UNCHANGED <<brokerVars, proxy, calls, consumer, eval>>

\* `assert channel.is_open`, the return, the end of the `with` block
SharedAcquireReturn(t) ==
    LET h == holder.shared IN
    /\ h.at[t] = "assert"
    /\ holder' = [holder EXCEPT !.shared =
                     [h EXCEPT !.conn_lock = NoThread, !.at[t] = "idle",
                               !.result[t] = IF h.channel[t].is_open THEN "ok"
                                             ELSE "AssertionError"]]
    /\ UNCHANGED <<brokerVars, proxy, calls, consumer, eval>>

\* the channels of a connection after Connection.close(): all closed
ChannelsClosed(h, role) ==
    [t \in Threads |->
        IF h.channel[t].role = role THEN [h.channel[t] EXCEPT !.is_open = FALSE]
        ELSE h.channel[t]]

\* close(): `if self._consumer_connection.connected: ...close()`, no lock taken
SharedCloseConsumer(t) ==
    LET h == holder.shared IN
    /\ h.at[t] = "idle"
    /\ h.calls < MaxSharedCalls
    /\ holder' = [holder EXCEPT
                     !.connected.consumer = FALSE,
                     !.shared = [h EXCEPT !.calls = @ + 1, !.at[t] = "close_producer",
                                   !.result[t] = "none",
                                   !.channel = IF holder.connected.consumer
                                               THEN ChannelsClosed(h, "consumer")
                                               ELSE h.channel]]
    /\ UNCHANGED <<brokerVars, proxy, calls, consumer, eval>>

\* ... then `if self._producer_connection.connected: ...close()`
SharedCloseProducer(t) ==
    LET h == holder.shared IN
    /\ h.at[t] = "close_producer"
    /\ holder' = [holder EXCEPT
                     !.connected.producer = FALSE,
                     !.shared = [h EXCEPT !.at[t] = "idle", !.result[t] = "closed",
                                   !.channel = IF holder.connected.producer
                                               THEN ChannelsClosed(h, "producer")
                                               ELSE h.channel]]
    /\ UNCHANGED <<brokerVars, proxy, calls, consumer, eval>>

NextShared ==
    \/ \E t \in Threads, role \in Roles : SharedAcquireLock(t, role)
    \/ \E t \in Threads : SharedAcquireChannel(t)
    \/ \E t \in Threads : SharedAcquireReturn(t)
    \/ \E t \in Threads : SharedCloseConsumer(t)
    \/ \E t \in Threads : SharedCloseProducer(t)

InitShared ==
    /\ QuietBroker
    /\ consumer = NewConsumer
    /\ holder = [NewHolder EXCEPT !.shared = NewShared]
    /\ eval = NoEval

SpecShared == InitShared /\ [][NextShared]_vars

\* ------------------------------------------------------------------------
\* The channels and producers the broker's operations acquire and release
\* ------------------------------------------------------------------------
MaxResourceOps == 2

\* the operations, and how many `with acquire...` blocks each one runs
\* through: _ensure_queue and delete_queue one per physical queue
Operations ==
    {"_ensure_queue", "_enqueue_message", "flush", "delete_queue",
     "get_queue_message_counts", "consume"}
Blocks(op) == IF op \in {"_ensure_queue", "delete_queue"} THEN 3 ELSE 1

\* what ends the body of consume() once it has its channel
ConsumeOutcomes ==
    {"ok", "NotFound", "init_raised", "check_raised", "NotFound_declare_raised"}

\* an operation begins
OperationCall(op) ==
    LET r == holder.resources IN
    /\ r.call.op = "none"
    /\ r.ops < MaxResourceOps
    /\ holder' = [holder EXCEPT !.resources =
                     [r EXCEPT !.ops = @ + 1,
                               !.call = [NoOperation EXCEPT !.op = op, !.stage = "acquire",
                                            !.rounds = Blocks(op)]]]
    /\ UNCHANGED <<brokerVars, proxy, calls, consumer, eval>>

\* acquire_consumer_channel() / acquire_producer(): the resource is handed
\* out, or the acquire raises and the operation ends with nothing new held
OperationAcquire(ok) ==
    LET r == holder.resources
        c == r.call
    IN
    /\ c.stage = "acquire"
    /\ holder' = [holder EXCEPT !.resources =
          IF ~ok THEN [r EXCEPT !.call = [c EXCEPT !.stage = "done", !.result = "raised"]]
          ELSE IF c.op = "_enqueue_message"
          THEN [r EXCEPT !.producers = @ + 1, !.call.stage = "body"]
          ELSE [r EXCEPT !.channels = @ + 1, !.call.stage = "body"]]
    /\ UNCHANGED <<brokerVars, proxy, calls, consumer, eval>>

\* the body of a `with` block ends, by its last statement or by an exception:
\* __exit__ releases the channel or the producer
WithBlockExit(ok) ==
    LET r == holder.resources
        c == r.call
        after == IF ~ok THEN [c EXCEPT !.stage = "done", !.result = "raised"]
                 ELSE IF c.rounds > 1
                 THEN [c EXCEPT !.stage = "acquire", !.rounds = @ - 1]
                 ELSE [c EXCEPT !.stage = "done", !.result = "ok", !.rounds = 0]
    IN
    /\ c.stage = "body"
    /\ c.op # "consume"
    /\ holder' = [holder EXCEPT !.resources =
          IF c.op = "_enqueue_message"
          THEN [r EXCEPT !.producers = @ - 1, !.call = after]
          ELSE [r EXCEPT !.channels = @ - 1, !.call = after]]
    /\ UNCHANGED <<brokerVars, proxy, calls, consumer, eval>>

\* consume() after its acquire: the Consumer is built around the channel and
\* probed; NotFound leads to a redeclare; the Consumer is returned, or an
\* exception of the constructor, of the probe or of the redeclare leaves
\* consume() with the channel where it is
ConsumeBodyExit(outcome) ==
    LET r == holder.resources
        c == r.call
    IN
    /\ c.stage = "body"
    /\ c.op = "consume"
    /\ holder' = [holder EXCEPT !.resources =
          IF outcome \in {"ok", "NotFound"}
          THEN [r EXCEPT !.consumers = @ + 1,
                         !.call = [c EXCEPT !.stage = "done", !.result = "ok"]]
          ELSE [r EXCEPT !.call = [c EXCEPT !.stage = "done", !.result = "raised"]]]
    /\ UNCHANGED <<brokerVars, proxy, calls, consumer, eval>>

\* the caller has the result
OperationReturn ==
    LET r == holder.resources IN
    /\ r.call.stage = "done"
    /\ holder' = [holder EXCEPT !.resources.call = [NoOperation EXCEPT
                                                        !.result = r.call.result]]
    /\ UNCHANGED <<brokerVars, proxy, calls, consumer, eval>>

\* the worker closes a Consumer it was given: its channel is released
ReturnedConsumerClose ==
    LET r == holder.resources IN
    /\ r.call.op = "none"
    /\ r.consumers > 0
    /\ holder' = [holder EXCEPT !.resources =
                     [r EXCEPT !.consumers = @ - 1, !.channels = @ - 1]]
    /\ UNCHANGED <<brokerVars, proxy, calls, consumer, eval>>

InitResources ==
    /\ QuietBroker
    /\ consumer = NewConsumer
    /\ holder \in {[NewHolder EXCEPT !.kind = k, !.resources = NewResources] :
                       k \in {"shared", "pooled"}}
    /\ eval = NoEval

NextResources ==
    \/ \E op \in Operations : OperationCall(op)
    \/ \E ok \in BOOLEAN : OperationAcquire(ok)
    \/ \E ok \in BOOLEAN : WithBlockExit(ok)
    \/ \E outcome \in ConsumeOutcomes : ConsumeBodyExit(outcome)
    \/ OperationReturn
    \/ ReturnedConsumerClose

SpecResources == InitResources /\ [][NextResources]_vars

\* ------------------------------------------------------------------------
\* PooledConnectionHolder: the connections its acquires borrow from the pools
\* ------------------------------------------------------------------------
MaxPooledCalls == 3

PoolRole(op) == IF op = "acquire_consumer_channel" THEN "consumer" ELSE "producer"

\* self._consumer_conn_pool.acquire(...) / ProducerPool(...).acquire(...):
\* a connection leaves the pool, not yet connected
PooledAcquire(op) ==
    LET p == holder.pooled IN
    /\ p.call.op = "none"
    /\ p.calls < MaxPooledCalls
    /\ holder' = [holder EXCEPT !.pooled =
                     [p EXCEPT !.calls = @ + 1,
                               !.dirty[PoolRole(op)] = @ + 1,
                               !.call = [NoPoolCall EXCEPT !.op = op, !.stage = "ensure",
                                            !.before = p.dirty[PoolRole(op)]]]]
    /\ UNCHANGED <<brokerVars, proxy, calls, consumer, eval>>

\* conn.ensure_connection(max_retries=self.connect_max_retries): one attempt;
\* the error of the last attempt leaves the method as it is
PooledEnsureConnection ==
    LET p == holder.pooled
        c == p.call
    IN
    /\ c.stage = "ensure"
    /\ holder' = [holder EXCEPT !.pooled.call =
                     IF holder.up THEN [c EXCEPT !.stage = "done", !.result = "ok"]
                     ELSE IF Exhausted(holder.conf.connect_max_retries, c.retries)
                     THEN [c EXCEPT !.stage = "done", !.result = "ConnectionError"]
                     ELSE [c EXCEPT !.retries =
                               Retried(holder.conf.connect_max_retries, @)]]
    /\ UNCHANGED <<brokerVars, proxy, calls, consumer, eval>>

\* the caller has the channel or producer, or the exception; what was
\* returned to it is released at the end of its `with` block
PooledReturn ==
    LET p == holder.pooled
        c == p.call
    IN
    /\ c.stage = "done"
    /\ holder' = [holder EXCEPT !.pooled =
                     [p EXCEPT !.call = NoPoolCall,
                               !.dirty[PoolRole(c.op)] =
                                   IF c.result = "ok" THEN @ - 1 ELSE @]]
    /\ UNCHANGED <<brokerVars, proxy, calls, consumer, eval>>

InitPooled ==
    /\ topology = "default"
    /\ max_delay_time = NoInt
    /\ max_declare_attempts = NoInt
    /\ budget = [ops |-> 0, oob |-> 0, fail |-> 0, ticks |-> 0]
    /\ InitBroker
    /\ consumer = NewConsumer
    /\ holder \in {[NewHolder EXCEPT !.kind = "pooled", !.pooled = NewPooled,
                                     !.conf.connect_max_retries = n] :
                       n \in {0, 1, 2}}
    /\ eval = NoEval

NextPooled ==
    \/ \E op \in {"acquire_consumer_channel", "acquire_producer"} : PooledAcquire(op)
    \/ PooledEnsureConnection
    \/ PooledReturn
    \/ TransportFlip

SpecPooled == InitPooled /\ [][NextPooled]_vars

\* ------------------------------------------------------------------------
\* A topology object: name resolution, the argument builders of the two
\* topology classes, _declare_queue and the errors it lets through
\* ------------------------------------------------------------------------
MaxSuffixes == 2

\* names with up to MaxSuffixes ".DQ" / ".XQ" endings
RECURSIVE Suffixed(_)
Suffixed(k) ==
    IF k = 0 THEN InputNames
    ELSE Suffixed(k - 1)
            \cup {Append(n, sfx) : n \in Suffixed(k - 1), sfx \in {"DQ", "XQ"}}

\* dead_letter_message_ttl values passed to a constructor (None or 1 s)
TtlArguments == {NoInt, 1000}

\* what the server may answer to queue.declare(): the exception class and
\* the text of its message
DeclareErrors ==
    {[cls |-> "none", errmsg |-> "none"]}
        \cup [cls : {"PreconditionFailed", "NotFound", "AccessRefused"},
              errmsg : {"inequivalent arg", "INEQUIVALENT ARG", "invalid arg"}]

\* str.lower() on the message texts
lower(errmsg) == IF errmsg = "INEQUIVALENT ARG" THEN "inequivalent arg" ELSE errmsg

\* the test on the message of a PreconditionFailed
is_inequivalent_args_any(errmsg) == TRUE

is_inequivalent_args(errmsg) == lower(errmsg) = "inequivalent arg"

\* DefaultDramatiqTopology._declare_queue: "queue" when it returns the queue,
\* else the class of the exception that leaves it
_declare_queue(cls, errmsg, ignore_different_topology) ==
    IF cls = "none" THEN "queue"
    ELSE IF cls # "PreconditionFailed" THEN cls
    ELSE IF ~ignore_different_topology THEN cls
    ELSE IF ~is_inequivalent_args(errmsg) THEN cls
    ELSE "queue"

\* get_queue_name_tuple(name)
Resolve ==
    /\ ~eval.resolved
    /\ eval' = [eval EXCEPT !.resolved = TRUE, !.tuple = get_queue_name_tuple(eval.name)]
    /\ UNCHANGED <<brokerVars, proxy, calls, consumer, holder>>

\* get_queue_name_tuple on one of the three names it returned
ResolveAgain(which) ==
    /\ eval.resolved
    /\ eval.which = "none"
    /\ eval' = [eval EXCEPT !.which = which,
                            !.again = get_queue_name_tuple(eval.tuple[which])]
    /\ UNCHANGED <<brokerVars, proxy, calls, consumer, holder>>

\* the three argument builders of the topology object, on the three names
BuildArguments ==
    /\ ~eval.built[topology]
    /\ LET q == get_queue_name_tuple(eval.name) IN
       eval' = [eval EXCEPT
                   !.built[topology] = TRUE,
                   !.names[topology] = q,
                   !.args[topology] =
                       [canonical |-> _get_canonical_queue_arguments(q.canonical),
                        delayed |-> _get_delay_queue_arguments(q.delayed),
                        dead_letter |-> _get_dead_letter_queue_arguments(q.dead_letter)]]
    /\ UNCHANGED <<brokerVars, proxy, calls, consumer, holder>>

\* the other topology class is constructed with the same arguments
OtherTopology ==
    /\ topology' = IF topology = "default" THEN "dlx" ELSE "default"
    /\ UNCHANGED <<max_delay_time, max_declare_attempts, registry, declare_lock, rmq, now,
                   th, ghosts, msgSeq, budget, proxy, calls, consumer, holder, eval>>

\* declare_canonical_queue / declare_delay_queue / declare_dead_letter_queue
DeclareQueue(kind, e, ignore) ==
    /\ eval.declare.kind = "none"
    /\ eval' = [eval EXCEPT
                   !.declare = [kind |-> kind, ignore |-> ignore, cls |-> e.cls,
                                errmsg |-> e.errmsg,
                                outcome |-> _declare_queue(e.cls, e.errmsg, ignore)]]
    /\ UNCHANGED <<brokerVars, proxy, calls, consumer, holder>>

InitTopology ==
    /\ topology \in Topologies
    /\ max_delay_time \in Caps
    /\ max_declare_attempts = NoInt
    /\ budget = [ops |-> 0, oob |-> 0, fail |-> 0, ticks |-> 0]
    /\ InitBroker
    /\ consumer = NewConsumer
    /\ holder = NewHolder
    /\ eval \in {[NoEval EXCEPT !.name = n, !.ttl_passed = p, !.ttl_arg = a] :
                    n \in Suffixed(MaxSuffixes), p \in BOOLEAN, a \in TtlArguments}
    /\ ~eval.ttl_passed => eval.ttl_arg = NoInt

NextTopology ==
    \/ Resolve
    \/ \E which \in {"canonical", "delayed", "dead_letter"} : ResolveAgain(which)
    \/ BuildArguments
    \/ OtherTopology
    \/ \E kind \in {"canonical", "delayed", "dead_letter"}, e \in DeclareErrors,
          ignore \in BOOLEAN : DeclareQueue(kind, e, ignore)

SpecTopology == InitTopology /\ [][NextTopology]_vars

\* ------------------------------------------------------------------------
\* Properties
\* ------------------------------------------------------------------------
CopiesIn(server, id, q) ==
    Cardinality({i \in 1..Len(server[q].msgs) : server[q].msgs[i].id = id})

TargetCanonical(t) == get_canonical_queue_name(th[t].qn)

\* C1: an enqueue without delay whose first publish finds no route (the
\* canonical queue was deleted behind the broker's back) surfaces no error:
\* it removes the name from `queues`, re-declares all three physical queues
\* under the declare lock, publishes a second time, and when it returns the
\* canonical queue holds exactly one copy of the message and the name is in
\* `queues` again (unless another delete_queue or recovery of that name ran).
C1_NoRouteRedeclareAndRetry ==
    [][\A t \in Threads :
        /\ (th[t].pc = "enq_publish" /\ th[t].reply_code = 0
              /\ th'[t].reply_code = NO_ROUTE)
            => (th'[t].pc = "enq_recover_lock" /\ th'[t].result = "none")
        /\ (th[t].pc = "enq_recover" /\ th'[t].pc = "dq_check")
            => TargetCanonical(t) \notin queues'
        /\ (th[t].pc = "ens_done" /\ th'[t].pc = "enq_unlock")
            => /\ th[t].log = EnsureOrder(get_queue_name_tuple(TargetCanonical(t)))
               /\ TargetCanonical(t) \in queues
               /\ Triple(TargetCanonical(t)) \cap queues_pending = {}
        /\ (th[t].pc = "enq_publish2" /\ th'[t].pc = "idle" /\ th'[t].result = "ok")
            => /\ th'[t].pubs = 2
               /\ CopiesIn(rmq', th[t].msg, TargetCanonical(t)) = 1
               /\ (rearms'[TargetCanonical(t)] = 1 => TargetCanonical(t) \in queues')
    ]_vars

\* C1 witness: an enqueue returned normally after one out-of-band delete, one
\* recovery and two publishes, with one copy of its message in the queue
C1_Witness ==
    \E t \in Threads :
        /\ th[t].op = "enqueue" /\ th[t].pc = "idle" /\ th[t].result = "ok"
        /\ th[t].recoveries = 1 /\ th[t].pubs = 2
        /\ budget.oob < MaxOob
        /\ rearms[th[t].name] = 1
        /\ CopiesIn(rmq, th[t].msg, th[t].name) = 1
        /\ th[t].name \in queues

\* C2: one enqueue call publishes at most twice and recovers at most once; a
\* second publish that finds no route raises the 312 channel error to the
\* caller; a channel error with another reply code on the first publish is
\* raised at once, with no recovery and the registry untouched.
C2_AtMostOneRetry ==
    [][\A t \in Threads :
        /\ th'[t].pubs <= 2
        /\ th'[t].recoveries <= 1
        /\ (th[t].pc = "enq_publish2" /\ th'[t] # th[t] /\ ~Routable(th[t].qn))
            => (th'[t].pc = "idle" /\ th'[t].result = "ChannelError"
                  /\ th'[t].pubs = 2 /\ UNCHANGED registry)
        /\ (th[t].pc = "enq_publish" /\ th'[t].pubs = 1
              /\ th'[t].reply_code \notin {0, NO_ROUTE})
            => (th'[t].pc = "idle" /\ th'[t].result = "ChannelError"
                  /\ th'[t].recoveries = 0 /\ UNCHANGED registry)
    ]_vars

\* C2 witness: the second publish of an enqueue raised no-route to the caller
C2_Witness ==
    \E t \in Threads :
        /\ th[t].op = "enqueue" /\ th[t].pc = "idle"
        /\ th[t].result = "ChannelError" /\ th[t].reply_code = NO_ROUTE
        /\ th[t].pubs = 2 /\ th[t].recoveries = 1

\* C3: with a cap configured, a delay above the cap raises DelayTooLongError
\* carrying the delay, the cap and the message's queue name, before any
\* publish or enqueue notification; a delay within the cap, no delay, or no
\* cap never raises it.
C3_DelayAboveCapRejected ==
    \A t \in Threads :
        th[t].op = "enqueue" =>
            /\ th[t].result = "DelayTooLongError" =>
                  /\ th[t].delay # NoInt /\ max_delay_time # NoInt
                  /\ th[t].delay > max_delay_time
                  /\ th[t].err = [delay |-> th[t].delay, max_delay |-> max_delay_time,
                                  queue_name |-> th[t].name]
                  /\ th[t].pubs = 0
                  /\ th[t].notes = <<>>
            /\ th[t].notes # <<>> =>
                  ~(th[t].delay # NoInt /\ max_delay_time # NoInt
                      /\ th[t].delay > max_delay_time)

\* C4: however many threads call declare_queue for an unregistered name at
\* the same time, one before/after notification pair is emitted and the name
\* is registered once; further pairs need a delete_queue or a recovery.
C4_OneDeclareNotification ==
    \A c \in CanonNames :
        /\ emitted[c] <= 1 + rearms[c]
        /\ rearms[c] = 0 => emitted[c] = (IF c \in queues THEN 1 ELSE 0)

\* C4 witness: a second caller passed the unlocked check, got the lock and
\* finds the name already registered by the first
C4_Witness ==
    \E t \in Threads :
        /\ th[t].pc = "dq_register"
        /\ Canonical(t) \in queues
        /\ emitted[Canonical(t)] = 1
        /\ rearms[Canonical(t)] = 0

\* C5: with no delete_queue, recovery or failed declare of the name, each of
\* its three physical queues is declared at most once however often
\* declare_queue(name, ensure=True) is called: exactly once by the time an
\* ensure completes, when none of the three names is pending any more.
C5_EnsureDeclaresOnce ==
    /\ \A q \in PhysNames :
          (rearms[get_canonical_queue_name(q)] = 0
             /\ get_canonical_queue_name(q) \notin declare_failed)
          => declared[q] <= 1
    /\ \A t \in Threads :
          th[t].pc = "ens_done" =>
              /\ Triple(Canonical(t)) \cap queues_pending = {}
              /\ (rearms[Canonical(t)] = 0 /\ Canonical(t) \notin declare_failed)
                  => \A q \in Triple(Canonical(t)) : declared[q] = 1

\* C5 witness: a later ensure of an already ensured name finished without
\* issuing any declare
C5_Witness ==
    \E t \in Threads :
        /\ th[t].pc = "ens_done"
        /\ th[t].log = <<>>
        /\ rearms[Canonical(t)] = 0
        /\ Canonical(t) \notin declare_failed
        /\ \A q \in Triple(Canonical(t)) : declared[q] = 1

\* C6: a declare that raises a recoverable error during ensure is retried in
\* place; after max_declare_attempts retries the next failure raises
\* ConnectionClosed, leaving the failed queue (and the canonical name, when
\* it was pending as the ensure began) pending; an ensure of a pending name
\* that gets through leaves the canonical name declared and not pending.
C6_DeclareRetryBounded ==
    [][\A t \in Threads :
        /\ max_declare_attempts # NoInt => th'[t].retries <= max_declare_attempts
        /\ (EnsureStage(t) # 0 /\ th'[t].retries = th[t].retries + 1)
            => (th'[t].pc = th[t].pc /\ UNCHANGED registry)
        /\ (EnsureStage(t) # 0 /\ th'[t].pc = "idle"
              /\ th'[t].result = "ConnectionClosed")
            => /\ th[t].retries = max_declare_attempts
               /\ EnsureTarget(t) \in queues_pending'
               /\ th[t].wasPending => Canonical(t) \in queues_pending'
        /\ (th[t].pc = "ens_3" /\ th'[t].pc = "ens_done" /\ th[t].wasPending)
            => /\ Canonical(t) \in queues'
               /\ Canonical(t) \notin queues_pending'
               /\ rmq'[Canonical(t)].exists
    ]_vars

\* C6 witness: an ensure gave up with ConnectionClosed and the name is pending
C6_Witness ==
    \E t \in Threads :
        /\ th[t].pc = "idle" /\ th[t].result = "ConnectionClosed"
        /\ th[t].wasPending
        /\ Canonical(t) \in queues_pending

\* C7 as stated: the ensure of a pending name declares the dead-letter queue,
\* then the delay queue, then the canonical queue.
C7_DeadLetterFirst ==
    \A t \in Threads :
        (th[t].pc = "ens_done" /\ th[t].wasPending)
        => th[t].log = <<get_dead_letter_queue_name(Canonical(t)),
                         get_delay_queue_name(Canonical(t)), Canonical(t)>>

\* C7 amended: the ensure of a pending name declares the delay queue, then
\* the dead-letter queue, then the canonical queue; the canonical queue is
\* declared last.
C7_DelayFirstCanonicalLast ==
    \A t \in Threads :
        (th[t].pc = "ens_done" /\ th[t].wasPending)
        => th[t].log = <<get_delay_queue_name(Canonical(t)),
                         get_dead_letter_queue_name(Canonical(t)), Canonical(t)>>

\* C7 witness: an ensure of a pending name has declared its three queues
C7_Witness ==
    \E t \in Threads :
        th[t].pc = "ens_done" /\ th[t].wasPending /\ Len(th[t].log) = 3

\* C8: with the default topology a delayed message is published to the delay
\* queue with per-message TTL D and eta = enqueue time + D, and is not in
\* the canonical queue before D ms have passed since its publish.
C8_DelayedNotBeforeD ==
    topology = "default" =>
        \A q \in PhysNames : \A i \in 1..Len(rmq[q].msgs) :
            LET m == rmq[q].msgs[i] IN
            m.delay # NoInt =>
                /\ m.queue_name = get_delay_queue_name(get_canonical_queue_name(q))
                /\ q = m.queue_name => m.expiration = m.delay
                /\ m.eta - m.delay <= m.pub
                /\ q = get_canonical_queue_name(q) => now - m.pub >= m.delay

\* C9: with DLXRoutingTopology no delayed message is ever in a canonical
\* queue, and a message expiring in the delay queue is appended to the
\* dead-letter queue.
C9_DLXRoutingSkipsCanonical ==
    [][topology = "dlx" =>
        /\ \A c \in CanonNames : \A i \in 1..Len(rmq'[c].msgs) :
              rmq'[c].msgs[i].delay = NoInt
        /\ \A c \in CanonNames :
              LET dq == get_delay_queue_name(c)
                  xq == get_dead_letter_queue_name(c)
              IN (rmq[dq].msgs # <<>> /\ rmq'[dq].exists /\ rmq[xq].exists
                    /\ rmq'[dq].msgs = Tail(rmq[dq].msgs))
                 => rmq'[xq].msgs =
                      Append(rmq[xq].msgs,
                             [Head(rmq[dq].msgs) EXCEPT !.expiration = NoInt, !.at = now])
    ]_vars

\* C9 witness: under DLXRoutingTopology a delayed message sits in the
\* dead-letter queue
C9_Witness ==
    /\ topology = "dlx"
    /\ \E c \in CanonNames :
          LET xq == get_dead_letter_queue_name(c) IN
          \E i \in 1..Len(rmq[xq].msgs) : rmq[xq].msgs[i].delay # NoInt

\* C10: whatever ack() and nack() calls are made on a MessageProxy, at most
\* one acknowledgement goes out on the wire for its delivery, and a call
\* made when the message was already acknowledged returns a boolean.
C10_AckNackIdempotent ==
    \A i \in ProxyIds :
        /\ proxy[i].wire <= 1
        /\ proxy[i].wasAcked => proxy[i].ret \in {"True", "False"}

\* C10 witness: ack() or nack() was called on an acknowledged message
C10_Witness ==
    \E i \in ProxyIds :
        proxy[i].wasAcked /\ proxy[i].wire = 1 /\ proxy[i].last \in {"ack", "nack"}

\* C11: a repeat ack() or nack() on an acknowledged message returns True
\* exactly when the outcome asked for is the one the message reached: ack()
\* on an acked message and nack() on a rejected one return True, ack() on a
\* rejected message and nack() on an acked one return False.
C11_RepeatReflectsOutcome ==
    \A i \in ProxyIds :
        proxy[i].wasAcked =>
            (proxy[i].ret = "True"
                <=> \/ (proxy[i].last = "ack" /\ proxy[i].state = "ACK")
                    \/ (proxy[i].last = "nack" /\ proxy[i].state = "REJECTED"))

\* C12: with a consumer that is not thread-safe, no acknowledgement frame is
\* ever written from a thread other than the owner: an ack() or nack() called
\* elsewhere is only queued, and the owner thread writes it later.
C12_WireOnlyOnOwner ==
    ~consumer.channel_threadsafe => consumer.wire_on \subseteq {Owner}

\* only a non-owner thread has called ack()/nack(), and the frame went out
\* from the owner thread
C12_Witness ==
    /\ ~consumer.channel_threadsafe
    /\ consumer.called # {}
    /\ Owner \notin consumer.called
    /\ consumer.executed # {}
    /\ consumer.wire_on = {Owner}

\* C13: when a pull cycle comes to read a delivery, every deferred action
\* that was in the ack queue or the nack queue when the cycle began has been
\* executed.
C13_DrainedBeforeRead ==
    consumer.pc = "pop" =>
        /\ consumer.snapshot \subseteq consumer.executed
        /\ consumer.snapshot \cap QueuedSubs = {}

\* the cycle is about to read: what was queued at its start has run, and an
\* action submitted during the cycle still waits
C13_Witness ==
    /\ consumer.pc = "pop"
    /\ consumer.snapshot # {}
    /\ consumer.last.nack \in consumer.snapshot
    /\ QueuedSubs # {}

\* C14 as stated: deferred actions submitted by non-owner threads are executed
\* in the order of their submission, acks and nacks taken together: an action
\* that is executed was submitted after every action executed before it.
C14_SubmissionOrder ==
    [][Owner \notin consumer'.called =>
          \A kind \in {"ack", "nack"} :
              consumer'.last[kind] # consumer.last[kind] =>
                  /\ consumer'.last[kind] > consumer.last.ack
                  /\ consumer'.last[kind] > consumer.last.nack]_vars

\* C14, amended: deferred acks are executed in the order of their submission,
\* and so are deferred nacks; the nacks of a pull cycle run only when no ack
\* that was queued at the start of the cycle is still waiting.
C14_OrderWithinKind ==
    /\ [][\A kind \in {"ack", "nack"} :
              consumer'.last[kind] # consumer.last[kind] =>
                  consumer'.last[kind] > consumer.last[kind]]_vars
    /\ [](consumer.pc = "drain_nack" =>
              \A k \in 1..Len(consumer.ack_queue) :
                  consumer.ack_queue[k].sub \notin consumer.snapshot)

\* two deferred acks of non-owner threads have been executed, the second
\* submission last
C14_Witness ==
    /\ Owner \notin consumer.called
    /\ consumer.executed = {1, 2}
    /\ consumer.last = [ack |-> 2, nack |-> 0]

\* C15: a blocking ack() or nack() that waits for the owner thread always
\* comes back, also when the consumer is closed before the action is drained.
C15_BlockingReturns ==
    \A t \in Threads :
        (consumer.caller[t].pc = "waiting") ~> (consumer.caller[t].pc = "idle")

C17_NoneOnlyOnTimeoutOrDecode ==
    consumer.pc = "return" =>
        /\ consumer.ret = "None" =>
                consumer.raw \in {"Empty", "TimeoutError", "undecodable"}
        /\ consumer.raw \in _conn_errors \cup {"heartbeat"} =>
                consumer.ret = "dramatiq.ConnectionError"

\* a channel error met by the read has been raised as dramatiq.ConnectionError
C17_Witness ==
    /\ consumer.pc = "return"
    /\ consumer.raw = "ChannelError"
    /\ consumer.ret = "dramatiq.ConnectionError"

\* C18: with a confirm timeout and a producer-acquisition timeout configured,
\* an enqueue that has begun always comes to an end: it returns or raises,
\* whatever the transport does.
C18_EnqueueTerminates ==
    (/\ holder.call.op = "enqueue"
     /\ holder.conf.confirm_timeout # NoInt
     /\ holder.conf.acquire_timeout # NoInt)
        ~> (holder.call.stage = "done")

C20_ReconnectsAfterClose ==
    (holder.call.stage = "done" /\ holder.closes > 0 /\ holder.call.clean) =>
        /\ holder.call.result = "ok"
        /\ holder.connected[IF holder.call.op = "acquire_consumer_channel"
                            THEN "consumer" ELSE "producer"]

\* an enqueue through a pooled holder that had been closed has published
C20_Witness ==
    /\ holder.kind = "pooled"
    /\ holder.closes > 0
    /\ holder.last = "close"
    /\ holder.call.op = "enqueue"
    /\ holder.call.stage = "done"
    /\ holder.call.result = "ok"
    /\ holder.connected.producer

\* C30: when the wire ack or reject raises, ack()/nack() keeps the exception
\* in last_acknowledge_error and raises it to the caller; the message stays
\* unacknowledged, and the next ack()/nack() on it goes to the wire again:
\* it raises again or the frame goes out.
C30_WireErrorRecordedAndRaised ==
    /\ [](\A i \in ProxyIds :
              proxy[i].wireFailed =>
                  /\ proxy[i].ret = "raised"
                  /\ proxy[i].last_acknowledge_error = "TransportError"
                  /\ ~acknowledged(proxy[i]))
    /\ [][\A i \in ProxyIds :
              (/\ proxy[i].wireFailed
               /\ proxy'[i] # proxy[i]
               /\ proxy'[i].failed = proxy[i].failed) =>
                  \/ proxy'[i].ret = "raised"
                  \/ (proxy'[i].wire = proxy[i].wire + 1 /\ acknowledged(proxy'[i]))]_vars

\* an ack() raised on the wire, and a later nack() of the same message went out
C30_Witness ==
    \E i \in ProxyIds :
        /\ proxy[i].last_acknowledge_error = "TransportError"
        /\ proxy[i].state = "REJECTED"
        /\ proxy[i].wire = 1
        /\ proxy[i].ret = "True"

\* C28: the canonical, delayed and dead-letter names get_queue_name_tuple
\* returns are pairwise distinct, and resolving any of the three gives the
\* same triple again.
C28_ResolveStable ==
    /\ eval.resolved =>
            /\ eval.tuple.canonical # eval.tuple.delayed
            /\ eval.tuple.canonical # eval.tuple.dead_letter
            /\ eval.tuple.delayed # eval.tuple.dead_letter
    /\ eval.which # "none" => eval.again = eval.tuple


\* C27: a topology declare returns the queue in spite of a failed
\* queue.declare() only when ignore_different_topology is set and the failure
\* is a PreconditionFailed whose message reports inequivalent arguments;
\* another precondition failure, a precondition failure without the opt-in
\* and every other declare error leave the call as the exception.
C27_OnlyInequivalentArgsSwallowed ==
    eval.declare.kind # "none" =>
        LET d == eval.declare
            failed == d.cls # "none"
            swallowed == failed /\ d.outcome = "queue" IN
        /\ swallowed <=> /\ d.cls = "PreconditionFailed"
                         /\ d.ignore
                         /\ lower(d.errmsg) = "inequivalent arg"
        /\ (failed /\ ~swallowed) => d.outcome = d.cls
        /\ ~failed => d.outcome = "queue"

\* C27 witness: with the opt-in, a PreconditionFailed whose message carries
\* the inequivalent-arguments text in capitals was swallowed
C27_Witness ==
    /\ eval.declare.kind = "delayed"
    /\ eval.declare.cls = "PreconditionFailed"
    /\ eval.declare.errmsg = "INEQUIVALENT ARG"
    /\ eval.declare.ignore
    /\ eval.declare.outcome = "queue"


\* C29 as stated: the two topology classes constructed with the same
\* arguments give the same names, the same canonical arguments, the same
\* dead-letter arguments, and delay arguments that differ in the dead-letter
\* routing key at most.
C29_SameButDelayRoutingKey ==
    (eval.built["default"] /\ eval.built["dlx"]) =>
        /\ eval.names["default"] = eval.names["dlx"]
        /\ eval.args["default"].canonical = eval.args["dlx"].canonical
        /\ eval.args["default"].dead_letter = eval.args["dlx"].dead_letter
        /\ eval.args["default"].delayed.ttl = eval.args["dlx"].delayed.ttl

\* C29 amended: the names, the canonical arguments and the delay queue's
\* x-message-ttl are the same; the delay queue dead-letters to the canonical
\* name in the default topology and to the dead-letter name of the canonical
\* name in the variant;
\* the dead-letter arguments are the same when dead_letter_message_ttl was
\* passed, and without it the default topology sets the seven-day
\* x-message-ttl while the variant sets none.
C29_SameButDelayKeyAndDefaultDlqTtl ==
    (eval.built["default"] /\ eval.built["dlx"]) =>
        LET d == eval.args["default"]
            x == eval.args["dlx"]
            q == eval.names["default"] IN
        /\ eval.names["dlx"] = q
        /\ d.canonical = x.canonical
        /\ d.delayed.ttl = x.delayed.ttl
        /\ d.delayed.dlrk = q.canonical
        /\ x.delayed.dlrk = get_dead_letter_queue_name(q.canonical)
        /\ eval.ttl_passed => d.dead_letter = x.dead_letter
        /\ ~eval.ttl_passed =>
                /\ d.dead_letter.ttl = DLQ_TTL_MS
                /\ x.dead_letter.ttl = NoInt

\* C29 witness: both classes were constructed without dead_letter_message_ttl
\* and with a max_delay_time, and built their arguments for the same name
C29_Witness ==
    /\ eval.built["default"] /\ eval.built["dlx"]
    /\ ~eval.ttl_passed
    /\ max_delay_time # NoInt
    /\ eval.args["default"].delayed.ttl = eval.args["dlx"].delayed.ttl
    /\ eval.args["default"].dead_letter # eval.args["dlx"].dead_letter
    /\ eval.args["default"].delayed.dlrk # eval.args["dlx"].delayed.dlrk


\* C26: `queues`, the set get_declared_queues() returns, holds canonical names
\* only, whatever declare_queue, ensure, enqueue, consume and delete_queue
\* calls were made.
C26_QueuesOnlyCanonical ==
    \A q \in queues : q = get_canonical_queue_name(q)


\* C25: declare_queue(name) without ensure only changes the registry: no step
\* of the call declares a queue on the server, touches the connection holder
\* or changes which queues exist, and when it returns the canonical name is
\* in `queues`.
C25_DeclareWithoutEnsureIsRegistryOnly ==
    [][\A t \in Threads :
        (/\ th[t].op = "declare_queue" /\ ~th[t].ensure
         /\ th[t].pc # "idle"
         /\ th'[t] # th[t])
        => /\ rmq' = rmq
           /\ declared' = declared
           /\ declare_failed' = declare_failed
           /\ holder' = holder
           /\ th'[t].pc \in {"dq_lock", "dq_register", "idle"}
           /\ th'[t].pc = "idle"
                => (th'[t].result = "ok" /\ Canonical(t) \in queues')
    ]_vars

\* C25 witness: a declare_queue without ensure registered the name as pending
\* and returned, and none of its three queues exists
C25_Witness ==
    \E t \in Threads :
        /\ th[t].op = "declare_queue" /\ th[t].pc = "idle" /\ th[t].result = "ok"
        /\ emitted[th[t].name] = 1
        /\ th[t].name \in queues /\ th[t].name \in queues_pending
        /\ \A q \in Triple(th[t].name) : ~rmq[q].exists /\ declared[q] = 0


\* C22: a consume(name) whose probe reports that the queue does not exist
\* removes the name from `queues`, declares the three physical queues of the
\* name again and returns a Consumer without raising; a consume whose probe
\* succeeds removes the name from `queues_pending` and declares nothing.
C22_ConsumeRedeclaresMissingQueue ==
    [][\A t \in Threads :
        /\ (th[t].pc = "con_body" /\ th'[t] # th[t] /\ ~th[t].found)
            => (th[t].name \notin queues' /\ th'[t].pc = "dq_check")
        /\ (th[t].op = "consume" /\ th[t].pc = "ens_done" /\ th'[t] # th[t])
            => /\ th[t].log = EnsureOrder(get_queue_name_tuple(th[t].name))
               /\ th'[t].pc = "con_unlock"
        /\ (th[t].pc = "con_unlock" /\ th'[t] # th[t])
            => (th'[t].pc = "idle" /\ th'[t].result = "ok")
        /\ (th[t].pc = "con_body" /\ th'[t] # th[t] /\ th[t].found)
            => /\ queues_pending' = queues_pending \ {th[t].name}
               /\ UNCHANGED <<queues, rmq, declared>>
               /\ th'[t].pc = "idle" /\ th'[t].result = "ok"
    ]_vars


\* C24: delete_queue(name) leaves the name out of `queues` and in
\* `queues_pending`, whichever of the three deletes the server refused with
\* NotAllowed, and the next ensure, enqueue or consume of that name declares
\* the three physical queues of the name again.
C24_DeleteRearmsAllThree ==
    [][\A t \in Threads :
        /\ (th[t].pc = "del_body" /\ th'[t] # th[t])
            => /\ th[t].name \notin queues' /\ th[t].name \in queues_pending'
               /\ th'[t].pc = "idle" /\ th'[t].result = "ok"
        /\ (th[t].rearmed /\ th[t].ensure /\ th[t].pc = "ens_done" /\ th'[t] # th[t])
            => th[t].log = EnsureOrder(get_queue_name_tuple(th[t].name))
        /\ (th[t].rearmed /\ th[t].pc = "con_body" /\ th'[t] # th[t])
            => th'[t].pc = "dq_check"
    ]_vars


\* C23: flush(name) purges nothing while the name is in `queues_pending`, and
\* otherwise purges the canonical, the delay and the dead-letter queue in
\* that order (a purge of a queue that does not exist ends the call with
\* NotFound); flush_all() runs flush for every name that was in `queues`.
C23_FlushSkipsPending ==
    [][\A t \in Threads :
        /\ (FlushStage(t) # 0 /\ th'[t] # th[t] /\ th[t].name \in queues_pending)
            => /\ rmq' = rmq
               /\ th'[t].log = <<>>
               /\ th'[t].pc = NextFlushStage(FlushStage(t))
        /\ (FlushStage(t) # 0 /\ th'[t] # th[t] /\ th[t].name \notin queues_pending)
            => IF rmq[FlushTarget(t)].exists
               THEN /\ rmq'[FlushTarget(t)].msgs = <<>>
                    /\ \A q \in PhysNames \ {FlushTarget(t)} : rmq'[q] = rmq[q]
                    /\ th'[t].log = Append(th[t].log, FlushTarget(t))
                    /\ th'[t].pc = NextFlushStage(FlushStage(t))
               ELSE /\ rmq' = rmq
                    /\ th'[t].pc = "idle" /\ th'[t].result = "NotFound"
        /\ (th[t].pc = "flush_done" /\ th'[t] # th[t])
            => th[t].log = IF th[t].name \in queues_pending THEN <<>>
                           ELSE FlushOrder(get_queue_name_tuple(th[t].name))
        /\ (th[t].pc = "idle" /\ th'[t].pc = "fa_next")
            => th'[t].todo = queues
        /\ (th[t].pc = "fa_next" /\ th'[t] # th[t])
            => IF th[t].todo = {}
               THEN th'[t].pc = "idle" /\ th'[t].result = "ok"
               ELSE /\ th'[t].pc = "flush_1"
                    /\ th'[t].name \in th[t].todo
                    /\ th'[t].todo = th[t].todo \ {th'[t].name}
    ]_vars

\* C23 witness: a flush of a pending name went through its three rounds
\* without a purge, and the message in the canonical queue is still there
C23_Witness ==
    \E t \in Threads :
        /\ th[t].op = "flush" /\ th[t].pc = "flush_done"
        /\ th[t].name \in queues_pending
        /\ th[t].log = <<>>
        /\ rmq[th[t].name].exists
        /\ rmq[th[t].name].msgs # <<>>


\* C21 as stated: the consumer channels held never outnumber
\* consumer_channel_pool_size, and an acquire made while all of them are held
\* raises the limit-exceeded error at once and leaves the pool as it was.
C21_LimitExceededAtOnce ==
    /\ [](HeldChannels(holder.channels) <= holder.channels.consumer_channel_pool_size)
    /\ [][\A t \in Threads :
            (/\ holder'.channels.acquires = holder.channels.acquires + 1
             /\ holder'.channels.call[t] # holder.channels.call[t]
             /\ PoolLimitReached(holder.channels))
            => /\ holder'.channels.call[t].result = "ChannelLimitExceeded"
               /\ holder'.channels.held = holder.channels.held
       ]_vars

\* C21 amended: the consumer channels held never outnumber
\* consumer_channel_pool_size. An acquire made while all of them are held
\* leaves the pool as it was; with block=False (the default, used by every
\* call of the broker) it raises the limit-exceeded error in the same attempt,
\* with block=True it waits, and then gets a channel once one is released or,
\* when it was given a timeout, raises the limit-exceeded error when the
\* timeout runs out. An acquire made while a channel is free gets it.
C21_ChannelsBounded ==
    /\ [](HeldChannels(holder.channels) <= holder.channels.consumer_channel_pool_size)
    /\ [][\A t \in Threads :
            LET p == holder.channels
                c == holder'.channels.call[t] IN
            /\ (holder'.channels.acquires = p.acquires + 1 /\ c # p.call[t])
                => IF PoolLimitReached(p)
                   THEN /\ holder'.channels.held = p.held
                        /\ ~c.block => (c.result = "ChannelLimitExceeded" /\ ~c.waiting)
                        /\ c.block => (c.result = "none" /\ c.waiting)
                   ELSE /\ c.result = "ok" /\ ~c.waiting
                        /\ holder'.channels.held = [p.held EXCEPT ![t] = @ + 1]
            /\ (p.call[t].waiting /\ ~c.waiting)
                => IF PoolLimitReached(p)
                   THEN /\ c.result = "ChannelLimitExceeded" /\ c.timeout # NoInt
                        /\ holder'.channels.held = p.held
                   ELSE /\ c.result = "ok"
                        /\ holder'.channels.held = [p.held EXCEPT ![t] = @ + 1]
       ]_vars

\* C21 witness: with every channel held an acquire was refused, a channel was
\* released, and the acquire made after that got a channel; the pool is full
\* again
C21_Witness ==
    /\ holder.channels.phase = 3
    /\ HeldChannels(holder.channels) = holder.channels.consumer_channel_pool_size
    /\ \E t \in Threads : holder.channels.call[t].result = "ok"


\* C31 (as stated): a name leaves `queues_pending` only in the step in which
\* a physical declare of that same queue succeeded; consume, flush,
\* delete_queue and the enqueue recovery remove nothing from it.
C31_LeavesPendingOnlyByDeclare ==
    [][\A q \in PhysNames :
        (q \in queues_pending /\ q \notin queues_pending')
            => declared'[q] = declared[q] + 1
    ]_vars

\* C31 (amended): a name leaves `queues_pending` only in the step in which a
\* physical declare of that same queue succeeded, or at the end of a
\* consume(name) whose probe found the queue of that name on the server;
\* flush, delete_queue and the enqueue recovery remove nothing from it.
C31_LeavesPendingByDeclareOrProbe ==
    [][\A q \in PhysNames :
        (q \in queues_pending /\ q \notin queues_pending')
            => \/ declared'[q] = declared[q] + 1
               \/ \E t \in Threads :
                     /\ th[t].op = "consume" /\ th[t].pc = "con_body"
                     /\ th[t].found /\ th[t].name = q
                     /\ th'[t].pc = "idle"
                     /\ declared' = declared
    ]_vars

\* a consume whose probe succeeded has cleared a name that delete_queue had
\* made pending, after the name had left `queues_pending` once by its declare
C31_Witness ==
    \E t \in Threads, q \in PhysNames :
        /\ th[t].op = "consume" /\ th[t].pc = "idle" /\ th[t].result = "ok"
        /\ th[t].name = q /\ th[t].recoveries = 0
        /\ declared[q] = 1 /\ rearms[get_canonical_queue_name(q)] > 0
        /\ q \notin queues /\ q \notin queues_pending


\* C32: every step that changes `queues` or `queues_pending` is taken by the
\* thread that holds the declare lock at that moment, whatever declare_queue,
\* ensure, enqueue, consume, delete_queue and delete_all calls interleave.
C32_RegistryMutatedUnderLock ==
    [][registry' # registry
        => \E t \in Threads :
              /\ Holds(t)
              /\ th'[t] # th[t]
              /\ \A u \in Threads \ {t} : th'[u] = th[u]
    ]_vars

\* one thread is inside a locked block and has changed the registry there,
\* while the other one waits for the lock
C32_Witness ==
    \E t \in Threads, u \in Threads :
        /\ t # u
        /\ Holds(t) /\ EnsureStage(t) # 0 /\ th[t].log # <<>>
        /\ th[u].pc \in {"dq_lock", "ens_lock", "del_lock", "con_lock", "enq_recover_lock"}
        /\ queues # {} /\ queues_pending # {}


\* C33: while a thread is between two attempts of a failing declare for one
\* queue name, a thread that is about to register, ensure or recover a
\* different queue name is not held up: the lock it needs can be taken.
C33_RetrySleepBlocksOnlyRetrier ==
    \A t \in Threads, u \in Threads :
        ( /\ t # u
          /\ EnsureStage(t) # 0 /\ th[t].retries > 0
          /\ th[u].pc \in {"dq_lock", "ens_lock", "enq_recover_lock"}
          /\ Canonical(u) # Canonical(t) )
        => CanAcquire(u)


\* C34: in the Shared strategy, under every interleaving of acquire_producer(),
\* acquire_consumer_channel() and close(), the `channel.is_open` assertion of
\* an acquire never fails, and the channel an acquire returns is open and its
\* connection is connected at that moment.
C34_AcquiredChannelOpen ==
    \A t \in Threads :
        /\ holder.shared.result[t] # "AssertionError"
        /\ (holder.shared.at[t] = "assert")
            => /\ holder.shared.channel[t].is_open
               /\ holder.connected[holder.shared.role[t]]


\* C36: in the Pooled strategy with a finite connect_max_retries, an
\* acquire_consumer_channel() or acquire_producer() that raises because the
\* connection could not be established leaves the number of connections
\* borrowed from its pool as it was before the call.
C36_FailedAcquireReturnsConnection ==
    LET c == holder.pooled.call IN
    (c.stage = "done" /\ c.result = "ConnectionError")
        => holder.pooled.dirty[PoolRole(c.op)] = c.before


\* C38: after check() returns or raises the reader is not consuming and holds
\* no registration; check() on a consuming reader raises without probing;
\* pop() returns None on empty or timeout and keeps the reader consuming; on
\* any other failure pop() leaves the reader not consuming, has tried the
\* cancel (whose own error is dropped) and raises the original error, and the
\* next pop() registers the consumer again.
C38_ReaderRestartable ==
    /\ [](LET r == consumer.reader IN
          /\ (r.last.op = "check" /\ ~r.last.was_consuming)
                => (~r._consuming /\ ~r.registered /\ r.last.cancelled)
          /\ (r.last.op = "check" /\ r.last.was_consuming)
                => (r.last.result = "RuntimeError" /\ r.last.reg = "none"
                        /\ ~r.last.cancelled /\ r._consuming)
          /\ (r.last.op = "pop" /\ r.last.read \in {"Empty", "TimeoutError"})
                => (r.last.result = "None" /\ r._consuming /\ r.registered
                        /\ ~r.last.cancelled)
          /\ (r.last.op = "pop" /\ r.last.result \notin {"None", "delivery"})
                => /\ ~r._consuming /\ ~r.registered /\ r.last.cancelled
                   /\ r.last.result = (IF r.last.read = "none" THEN r.last.reg
                                       ELSE r.last.read))
    /\ [][LET r == consumer.reader
              n == consumer'.reader
          IN (r.last.op = "pop" /\ r.last.result \notin {"None", "delivery"}
                /\ n.calls = r.calls + 1 /\ n.last.op = "pop")
             => /\ n.last.reg # "none"
                /\ n.last.reg = "ok" => (n.registered \/ n.last.cancelled)
      ]_vars

\* a pop failed with an error of its own while its cancel failed too, and the
\* pop after it registered the consumer again and read a delivery
C38_Witness ==
    LET r == consumer.reader IN
    /\ r.restarts > 0
    /\ r.last.op = "pop" /\ r.last.reg = "ok" /\ r.last.result = "delivery"
    /\ r._consuming /\ r.registered


\* C37: a Consumer releases its channel once: the first close() releases it
\* and a further close() of the same Consumer does not release it again.
C37_ChannelReleasedOnce ==
    consumer.reader.releases <= 1


\* C39: an enqueue that raised DelayTooLongError has ensured its queue all the
\* same: the name is in `queues` and not in `queues_pending`, and each of its
\* three physical queues has been declared.
C39_EnsuredBeforeDelayValidation ==
    \A t \in Threads :
        (th[t].op = "enqueue" /\ th[t].pc = "idle"
            /\ th[t].result = "DelayTooLongError")
        => LET c == get_canonical_queue_name(th[t].name) IN
           /\ c \in queues
           /\ c \notin queues_pending
           /\ \A q \in Triple(c) : declared[q] > 0

\* the rejected enqueue was the call that ensured the so far unknown name
C39_Witness ==
    \E t \in Threads :
        /\ th[t].op = "enqueue" /\ th[t].pc = "idle"
        /\ th[t].result = "DelayTooLongError"
        /\ th[t].wasPending
        /\ th[t].err.delay > th[t].err.max_delay
        /\ budget.ops = MaxDelayOps - 1
        /\ \A q \in Triple(th[t].name) : declared[q] = 1 /\ rmq[q].exists


\* C40: whatever another thread's declare_queue is doing, a purge that
\* flush_all() issues is for a name whose three physical queues have been
\* declared: no purge goes out for a name that is in `queues` but not ensured.
C40_FlushAllPurgesOnlyEnsured ==
    [][\A t \in Threads :
        (th[t].op = "flush_all" /\ FlushStage(t) # 0 /\ th'[t] # th[t]
            /\ ~FlushSkips(th[t].name))
        => \A q \in Triple(th[t].name) : declared[q] > 0
    ]_vars


\* C35: once an operation of the broker has returned or raised, it holds
\* nothing of what it acquired: no producer is out, and the only channels
\* out are those of the Consumers that consume() has returned.
C35_ReleasedOnEveryExit ==
    LET r == holder.resources IN
    r.call.op = "none" => (r.producers = 0 /\ r.channels = r.consumers)

====
